---- MODULE Spec2Model ----
(***************************************************************************)
(* CsoDIAq identification engine: FDR filter, command line, idpicker,     *)
(* the Identifier run, its workers and the library peak lists.            *)
(*                                                                         *)
(* Numbers.  m/z values are integers, intensities are small integers and   *)
(* the FDR threshold 0.01 is the fraction 1 / FdrCutoffDenominator, so    *)
(* every comparison the program makes on floats is made here exactly, by   *)
(* cross-multiplication.                                                   *)
(***************************************************************************)
EXTENDS Integers, Sequences, FiniteSets, TLC

VARIABLES
    \* ---- FDR filter applied to a ranked Score table ----
    fdrStage,         \* "ranked" | "filtered" | "refiltered" | "flipped"
    fdrScoreDf,       \* the ranked Score table (rows in descending score order)
    fdrIsDecoyArray,  \* the 0/1 decoy flag of each row of fdrScoreDf
    fdrCutoffIdx,     \* scoreDfCutoffIdx of the last application, -1 before any
    fdrAccepted,      \* scoreDf.iloc[:scoreDfCutoffIdx] of the last application
    fdrPrev,          \* [cutoff, accepted] of the application before the last
    \* ---- csodiaq.py main(): the command line ----
    cliPc,            \* "start" | "parsed" | "validated" | "library" | "files" | "done" | "error"
    cliArgv,          \* the command line as typed
    cliArgs,          \* vars(arg_parser.parse_args()), <<>> before parsing
    cliLib,           \* TRUE once cbf.library_file_to_dict has run
    cliFileIdx,       \* i of the loop over args['files']
    cliOutFiles,      \* the output files written so far
    \* ---- idpicker: protein inference over the peptide-protein graph ----
    ipStage,          \* "edges" | "collapsed" | "clustered" | "covered"
    ipDf,             \* the input rows (peptide, protein), in the order given
    ipCollapsed,      \* rows (peptide-group, protein-group) after the collapse
    ipClusters,       \* the cluster id of each collapsed row
    ipPicks,          \* the protein-groups selected so far, in pick order
    \* ---- Identifier: one run of identify_library_spectra_in_queries ----
    pc,               \* "load" | "match" | "score" | "correct" | "write" | "done" | "error"
    args,             \* self._args
    libraryDict,      \* self._libraryDict
    decoySet,         \* self._decoySet
    fileIdx,          \* position of queryFile in self._args["files"], from 1
    queryContext,     \* self._queryContext
    pooled,           \* per pool of the current file: the pooled peaks and the matcher's table
    matchDf,          \* matchDf of the current file
    scoreDf,          \* scoreDf of the current file
    ppmWindow,        \* (offset, tolerance) computed by the correction, <<>> if none
    outputDf,         \* the rows written for the current file
    outFiles,         \* the paths written so far
    \* ---- two workers running the per-file steps on one shared Identifier ----
    parPc,            \* per worker: "load" | "match" | "score" | "correct" | "write" | "done" | "error"
    parArgs,          \* self._args of the shared Identifier
    parFiles,         \* per worker: the content of its query file
    parQueryContext,  \* self._queryContext of the shared Identifier
    parLibraryDict,   \* self._libraryDict of the shared Identifier
    parMatchDf,       \* per worker: its local matchDf
    parScoreDf,       \* per worker: its local scoreDf
    parOutFiles,      \* the files written: a set of <<path, table>>
    \* ---- library loader: the peak list of one library spectrum ----
    llPc,             \* "lists" | "peaks" | "reduced"
    llMz,             \* the m/z list read for the spectrum
    llIntensities,    \* the intensity list read for the spectrum
    llId,             \* the key index of the spectrum
    llMaxPeakNum,     \* maxPeakNum
    llPeaks,          \* the list object peaks
    llReturned        \* what remove_low_intensity_peaks_below_max_peak_num returned

fdrVars == <<fdrStage, fdrScoreDf, fdrIsDecoyArray, fdrCutoffIdx, fdrAccepted, fdrPrev>>

cliVars == <<cliPc, cliArgv, cliArgs, cliLib, cliFileIdx, cliOutFiles>>

ipVars == <<ipStage, ipDf, ipCollapsed, ipClusters, ipPicks>>

idVars == <<pc, args, libraryDict, decoySet, fileIdx, queryContext, pooled, matchDf,
            scoreDf, ppmWindow, outputDf, outFiles>>

parVars == <<parPc, parArgs, parFiles, parQueryContext, parLibraryDict, parMatchDf,
             parScoreDf, parOutFiles>>

loaderVars == <<llPc, llMz, llIntensities, llId, llMaxPeakNum, llPeaks, llReturned>>

vars == <<fdrVars, cliVars, ipVars, idVars, parVars, loaderVars>>

otherThanFdr == <<cliVars, ipVars, idVars, parVars, loaderVars>>

otherThanCli == <<fdrVars, ipVars, idVars, parVars, loaderVars>>

otherThanIp == <<fdrVars, cliVars, idVars, parVars, loaderVars>>

otherThanId == <<fdrVars, cliVars, ipVars, parVars, loaderVars>>

otherThanPar == <<fdrVars, cliVars, ipVars, idVars, loaderVars>>

otherThanLoader == <<fdrVars, cliVars, ipVars, idVars, parVars>>

\* a component that is not part of the specification being checked
FdrOff ==
    /\ fdrStage = "off"
    /\ fdrScoreDf = <<>>
    /\ fdrIsDecoyArray = <<>>
    /\ fdrCutoffIdx = -1
    /\ fdrAccepted = <<>>
    /\ fdrPrev = <<>>

IpOff ==
    /\ ipStage = "off"
    /\ ipDf = <<>>
    /\ ipCollapsed = <<>>
    /\ ipClusters = <<>>
    /\ ipPicks = <<>>

IdOff ==
    /\ pc = "off"
    /\ args = <<>>
    /\ libraryDict = <<>>
    /\ decoySet = {}
    /\ fileIdx = 0
    /\ queryContext = <<>>
    /\ pooled = <<>>
    /\ matchDf = <<>>
    /\ scoreDf = <<>>
    /\ ppmWindow = <<>>
    /\ outputDf = <<>>
    /\ outFiles = {}

ParOff ==
    /\ parPc = <<>>
    /\ parArgs = <<>>
    /\ parFiles = <<>>
    /\ parQueryContext = <<>>
    /\ parLibraryDict = <<>>
    /\ parMatchDf = <<>>
    /\ parScoreDf = <<>>
    /\ parOutFiles = {}

LoaderOff ==
    /\ llPc = "off"
    /\ llMz = <<>>
    /\ llIntensities = <<>>
    /\ llId = 0
    /\ llMaxPeakNum = 0
    /\ llPeaks = <<>>
    /\ llReturned = <<>>

CliOff ==
    /\ cliPc = "off"
    /\ cliArgv = <<>>
    /\ cliArgs = <<>>
    /\ cliLib = FALSE
    /\ cliFileIdx = 0
    /\ cliOutFiles = {}

-----------------------------------------------------------------------------
(* Generic helpers *)

Max(a, b) == IF a >= b THEN a ELSE b

Min(a, b) == IF a <= b THEN a ELSE b

Abs(a) == IF a >= 0 THEN a ELSE -a

SetMax(S) == CHOOSE m \in S : \A e \in S : e <= m

SetMin(S) == CHOOSE m \in S : \A e \in S : m <= e

\* df.iloc[:n] of pandas for 0 <= n: the first n rows (all of them when n > len)
Iloc(df, n) == SubSeq(df, 1, Min(n, Len(df)))

-----------------------------------------------------------------------------
(* FDR filter *)

\* 0.01 = 1 / FdrCutoffDenominator ("0.01, or 1 decoy per 99 targets")
FdrCutoffDenominator == 100

\* the comparison turned round: d / max(t, 1) >= 0.01
FdrAtOrAboveCutoff(d, t) == d * FdrCutoffDenominator >= Max(t, 1)

\* cumulative FDR d / max(t, 1) <= 0.01
FdrAtOrBelowCutoff(d, t) == d * FdrCutoffDenominator <= Max(t, 1)

\* np.cumsum of the decoy flags: the decoys among the first i rows
DecoyCumSum(isDecoyArray) ==
    [i \in 1..Len(isDecoyArray) |-> Cardinality({j \in 1..i : isDecoyArray[j] = 1})]

\* the ranks whose cumulative FDR (decoys so far / max(targets so far, 1)) is
\* at or below the cutoff
RanksAtOrBelowCutoff(isDecoyArray) ==
    LET decoyCumSum == DecoyCumSum(isDecoyArray)
    IN {i \in 1..Len(isDecoyArray) : FdrAtOrBelowCutoff(decoyCumSum[i], i - decoyCumSum[i])}

\* the cutoff put at the first rank whose FDR exceeds the threshold
determine_index_of_fdr_cutoff_first_crossing(isDecoyArray) ==
    LET above == (1..Len(isDecoyArray)) \ RanksAtOrBelowCutoff(isDecoyArray)
    IN IF above = {} THEN Len(isDecoyArray) ELSE SetMin(above) - 1

\* the last rank whose cumulative FDR is at or below the threshold, 0 if none
determine_index_of_fdr_cutoff(isDecoyArray) ==
    LET below == RanksAtOrBelowCutoff(isDecoyArray)
    IN IF below = {} THEN 0 ELSE SetMax(below)

\* df.iloc[:n-1]: one row short
IlocOneShort(df, n) == SubSeq(df, 1, Min(Max(n - 1, 0), Len(df)))

\* return scoreDf.iloc[:scoreDfCutoffIdx, :]
RowsAboveCutoff(rankedDf, scoreDfCutoffIdx) == Iloc(rankedDf, scoreDfCutoffIdx)

(* Ranked Score tables the filter is applied to.  A table is a short head of
   arbitrary rows, a run of target rows and a short tail of arbitrary rows:
   with a threshold of 1/100 a decoy is only ever accepted behind at least
   100 targets, so the run lengths sit around FdrCutoffDenominator. *)
FdrHeadLen == 2

FdrTailLen == 2

FdrRunLens == {0, FdrCutoffDenominator - 1, FdrCutoffDenominator}

BitSeqs(n) == UNION {[1..k -> {0, 1}] : k \in 0..n}

Targets(n) == [i \in 1..n |-> 0]

\* row i of a ranked table: scores strictly descending with the rank
RankedScoreDf(n) == [i \in 1..n |-> [libraryIdx |-> i - 1, queryIdx |-> 1, score |-> n - i]]

FdrInit ==
    /\ fdrStage = "ranked"
    /\ \E head \in BitSeqs(FdrHeadLen), tail \in BitSeqs(FdrTailLen), run \in FdrRunLens :
          /\ fdrIsDecoyArray = head \o Targets(run) \o tail
          /\ fdrScoreDf = RankedScoreDf(Len(head) + run + Len(tail))
    /\ fdrCutoffIdx = -1
    /\ fdrAccepted = <<>>
    /\ fdrPrev = [cutoff |-> -1, accepted |-> <<>>]
    /\ CliOff
    /\ IpOff
    /\ IdOff
    /\ ParOff
    /\ LoaderOff

\* _score_spectra_matches from the decoy flags on: cutoff, then truncation
FdrFilter ==
    /\ fdrStage = "ranked"
    /\ LET scoreDfCutoffIdx == determine_index_of_fdr_cutoff(fdrIsDecoyArray)
       IN /\ fdrCutoffIdx' = scoreDfCutoffIdx
          /\ fdrAccepted' = RowsAboveCutoff(fdrScoreDf, scoreDfCutoffIdx)
    /\ fdrStage' = "filtered"
    /\ UNCHANGED <<fdrScoreDf, fdrIsDecoyArray, fdrPrev>>
    /\ UNCHANGED otherThanFdr

\* the filter applied again to the table it returned (same decoy flags per row)
FdrRefilter ==
    /\ fdrStage = "filtered"
    /\ LET isDecoyArray == Iloc(fdrIsDecoyArray, Len(fdrAccepted))
           scoreDfCutoffIdx == determine_index_of_fdr_cutoff(isDecoyArray)
       IN /\ fdrScoreDf' = fdrAccepted
          /\ fdrIsDecoyArray' = isDecoyArray
          /\ fdrCutoffIdx' = scoreDfCutoffIdx
          /\ fdrAccepted' = RowsAboveCutoff(fdrAccepted, scoreDfCutoffIdx)
    /\ fdrPrev' = [cutoff |-> fdrCutoffIdx, accepted |-> fdrAccepted]
    /\ fdrStage' = "refiltered"
    /\ UNCHANGED otherThanFdr

\* the filter applied to the same table with the row at rank j turned from
\* target into decoy
FdrFlip(j) ==
    /\ fdrStage = "filtered"
    /\ fdrIsDecoyArray[j] = 0
    /\ LET isDecoyArray == [fdrIsDecoyArray EXCEPT ![j] = 1]
           scoreDfCutoffIdx == determine_index_of_fdr_cutoff(isDecoyArray)
       IN /\ fdrIsDecoyArray' = isDecoyArray
          /\ fdrCutoffIdx' = scoreDfCutoffIdx
          /\ fdrAccepted' = RowsAboveCutoff(fdrScoreDf, scoreDfCutoffIdx)
    /\ fdrPrev' = [cutoff |-> fdrCutoffIdx, accepted |-> fdrAccepted]
    /\ fdrStage' = "flipped"
    /\ UNCHANGED fdrScoreDf
    /\ UNCHANGED otherThanFdr

FdrNext ==
    \/ FdrFilter
    \/ FdrRefilter
    \/ \E j \in 1..Len(fdrIsDecoyArray) : FdrFlip(j)

SpecFdr == FdrInit /\ [][FdrNext]_vars

\* decoys among the first i rows of the table being filtered, counted directly
DecoysUpTo(i) == Cardinality({j \in 1..i : fdrIsDecoyArray[j] = 1})

\* rank i has cumulative FDR decoys / max(targets, 1) <= 1/100
RankWithinFdr(i) == FdrCutoffDenominator * DecoysUpTo(i) <= Max(i - DecoysUpTo(i), 1)

(* C3: the filter keeps exactly the rows of the longest prefix whose cumulative
   FDR is at or below 0.01: the cutoff is the last rank at or below the
   threshold (no later rank is), whatever happened at earlier ranks, and the
   accepted table is the first cutoff rows of the ranked table. *)
C3_FdrKeepsLongestPrefix ==
    fdrStage = "filtered" =>
        /\ fdrCutoffIdx \in 0..Len(fdrIsDecoyArray)
        /\ fdrCutoffIdx > 0 => RankWithinFdr(fdrCutoffIdx)
        /\ \A i \in (fdrCutoffIdx + 1)..Len(fdrIsDecoyArray) : ~RankWithinFdr(i)
        /\ fdrAccepted = SubSeq(fdrScoreDf, 1, fdrCutoffIdx)

\* a table whose FDR was above the threshold at an earlier rank than the cutoff,
\* and which loses rows beyond the cutoff
C3_Witness ==
    /\ fdrStage = "filtered"
    /\ \E i \in 1..fdrCutoffIdx : ~RankWithinFdr(i)
    /\ 0 < fdrCutoffIdx
    /\ fdrCutoffIdx < Len(fdrIsDecoyArray)

(* C4: turning the row at any rank from target into decoy never increases the
   number of rows the filter accepts. *)
C4_FdrMonotone ==
    fdrStage = "flipped" => Len(fdrAccepted) <= Len(fdrPrev.accepted)

\* a flip that costs rows but not all of them
C4_Witness ==
    /\ fdrStage = "flipped"
    /\ 0 < Len(fdrAccepted)
    /\ Len(fdrAccepted) < Len(fdrPrev.accepted)

(* C5: the filter applied to the table it has just returned gives the same
   table: same rows in the same order, same cutoff index. *)
C5_FdrIdempotent ==
    fdrStage = "refiltered" =>
        /\ fdrAccepted = fdrPrev.accepted
        /\ fdrCutoffIdx = fdrPrev.cutoff

\* re-filtering a table that the first application truncated behind an
\* accepted decoy
C5_Witness ==
    /\ fdrStage = "refiltered"
    /\ \E i \in 1..Len(fdrAccepted) : fdrIsDecoyArray[i] = 1
    /\ fdrPrev.cutoff = Len(fdrAccepted)

-----------------------------------------------------------------------------
(* csodiaq.py: command-line validation and the run it starts.

   Floats are [kind, tenths]: a finite value is kind "num" with its value in
   tenths (0.5 is 5, -1 is -10), and float() also produces "nan" and "inf".
   Comparisons follow IEEE 754 as Python does: every ordering comparison with
   nan is False. *)

Num(tenths) == [kind |-> "num", tenths |-> tenths]

NaN == [kind |-> "nan", tenths |-> 0]

Inf == [kind |-> "inf", tenths |-> 0]

ValueError == [kind |-> "ValueError", tenths |-> 0]

\* a < b on Python floats
FloatLess(a, b) ==
    /\ a.kind # "nan"
    /\ b.kind # "nan"
    /\ a.kind # "inf"
    /\ (b.kind = "inf" \/ a.tenths < b.tenths)

\* a == b on Python numbers
NumEq(a, b) == a.kind = "num" /\ b.kind = "num" /\ a.tenths = b.tenths

\* the strings typed after -t / --fragmentMassTolerance
TolTokens == {"20", "1", "0", "-5", "1.5", "abc"}

\* the strings typed after -c / --correction
CorrTokens == {"0.4", "0.5", "1.0", "2.0", "2.1", "nan", "inf", "abc", "0", "-1"}

\* int(x) of Python on the tokens above
PyInt(x) ==
    CASE x = "20" -> Num(200)
      [] x = "1" -> Num(10)
      [] x = "0" -> Num(0)
      [] x = "-5" -> Num(-50)
      [] x = "-1" -> Num(-10)
      [] OTHER -> ValueError

\* float(x) of Python on the tokens above
PyFloat(x) ==
    CASE x = "0.4" -> Num(4)
      [] x = "0.5" -> Num(5)
      [] x = "1.0" -> Num(10)
      [] x = "2.0" -> Num(20)
      [] x = "2.1" -> Num(21)
      [] x = "1.5" -> Num(15)
      [] x = "20" -> Num(200)
      [] x = "1" -> Num(10)
      [] x = "0" -> Num(0)
      [] x = "-1" -> Num(-10)
      [] x = "-5" -> Num(-50)
      [] x = "nan" -> NaN
      [] x = "inf" -> Inf
      [] OTHER -> ValueError

ArgumentTypeError == [error |-> TRUE, value |-> ValueError]

Converted(v) == [error |-> FALSE, value |-> v]

restricted_float(x) ==
    LET f == PyFloat(x)
    IN IF f.kind = "ValueError" THEN ArgumentTypeError
       ELSE IF FloatLess(f, Num(5)) \/ FloatLess(Num(20), f) THEN ArgumentTypeError
       ELSE Converted(f)

restricted_int(x) ==
    LET n == PyInt(x)
    IN IF n.kind = "ValueError" THEN ArgumentTypeError
       ELSE IF FloatLess(n, Num(10)) THEN ArgumentTypeError
       ELSE Converted(n)

\* default=20 of --fragmentMassTolerance
DefaultFragmentMassTolerance == 20

\* files given with -f: 1..MaxCliFiles
MaxCliFiles == 2

\* argparse on one option: its default when absent (a non-string default is
\* not converted), for nargs='?' its const when the flag stands alone (a
\* non-string const is not converted), else type(string)
ParseTolerance(t) ==
    IF t = "absent" THEN Converted(Num(DefaultFragmentMassTolerance * 10))
    ELSE restricted_int(t)

ParseCorrection(c) ==
    IF c = "absent" THEN Converted(Num(-10))
    ELSE IF c = "flag" THEN Converted(Num(0))
    ELSE restricted_float(c)

CliInit ==
    /\ cliPc = "start"
    /\ cliArgv \in [command : {"id", "quant"},
                    t : TolTokens \cup {"absent"},
                    c : CorrTokens \cup {"absent", "flag"},
                    histogram : BOOLEAN,
                    nFiles : 1..MaxCliFiles,
                    filesExist : BOOLEAN,
                    libraryExists : BOOLEAN,
                    outDirectoryExists : BOOLEAN]
    /\ cliArgs = <<>>
    /\ cliLib = FALSE
    /\ cliFileIdx = 0
    /\ cliOutFiles = {}
    /\ FdrOff
    /\ IpOff
    /\ IdOff
    /\ ParOff
    /\ LoaderOff

\* args = vars(arg_parser.parse_args()): a type function raising
\* ArgumentTypeError makes argparse print the error and exit
ParseArgs ==
    /\ cliPc = "start"
    /\ LET tol == ParseTolerance(cliArgv.t)
           corr == ParseCorrection(cliArgv.c)
       IN IF tol.error \/ corr.error
          THEN /\ cliPc' = "error"
               /\ UNCHANGED cliArgs
          ELSE /\ cliPc' = "parsed"
               /\ cliArgs' = [command |-> cliArgv.command,
                              fragmentMassTolerance |-> tol.value,
                              correction |-> corr.value,
                              histogram |-> cliArgv.histogram]
    /\ UNCHANGED <<cliArgv, cliLib, cliFileIdx, cliOutFiles>>
    /\ UNCHANGED otherThanCli

\* the arg_parser.error checks that follow parse_args
ValidateArgs ==
    /\ cliPc = "parsed"
    /\ IF \/ (cliArgs.histogram /\ NumEq(cliArgs.correction, Num(-10)))
          \/ ~cliArgv.filesExist
          \/ ~cliArgv.libraryExists
          \/ ~cliArgv.outDirectoryExists
       THEN cliPc' = "error"
       ELSE cliPc' = "validated"
    /\ UNCHANGED <<cliArgv, cliArgs, cliLib, cliFileIdx, cliOutFiles>>
    /\ UNCHANGED otherThanCli

\* command 'id': lib = cbf.library_file_to_dict(args['library'])
LoadLibrary ==
    /\ cliPc = "validated"
    /\ cliArgs.command = "id"
    /\ cliLib' = TRUE
    /\ cliFileIdx' = 0
    /\ cliPc' = "files"
    /\ UNCHANGED <<cliArgv, cliArgs, cliOutFiles>>
    /\ UNCHANGED otherThanCli

\* one turn of the loop over args['files']: the uncorrected output and, when
\* correction != -1, the corrected outputs computed with args['correction']
WriteFileOutputs ==
    /\ cliPc = "files"
    /\ cliFileIdx < cliArgv.nFiles
    /\ cliOutFiles' = cliOutFiles
            \cup {[file |-> cliFileIdx + 1, corrected |-> FALSE]}
            \cup (IF ~NumEq(cliArgs.correction, Num(-10))
                  THEN {[file |-> cliFileIdx + 1, corrected |-> TRUE]}
                  ELSE {})
    /\ cliFileIdx' = cliFileIdx + 1
    /\ UNCHANGED <<cliPc, cliArgv, cliArgs, cliLib>>
    /\ UNCHANGED otherThanCli

FinishFiles ==
    /\ cliPc = "files"
    /\ cliFileIdx = cliArgv.nFiles
    /\ cliPc' = "done"
    /\ UNCHANGED <<cliArgv, cliArgs, cliLib, cliFileIdx, cliOutFiles>>
    /\ UNCHANGED otherThanCli

\* command 'quant': menu.heavy_light_quantification(..., args['correction'], hist)
Quantify ==
    /\ cliPc = "validated"
    /\ cliArgs.command = "quant"
    /\ cliLib' = TRUE
    /\ cliOutFiles' = {[file |-> 0, corrected |-> ~NumEq(cliArgs.correction, Num(-10))]}
    /\ cliPc' = "done"
    /\ UNCHANGED <<cliArgv, cliArgs, cliFileIdx>>
    /\ UNCHANGED otherThanCli

CliNext ==
    \/ ParseArgs
    \/ ValidateArgs
    \/ LoadLibrary
    \/ WriteFileOutputs
    \/ FinishFiles
    \/ Quantify

SpecCli == CliInit /\ [][CliNext]_vars

\* the tokens that spell an integer >= 1
TolTokenInDomain(t) == t \in {"20", "1"}

\* the tokens that spell a float in [0.5, 2.0]
CorrTokenInDomain(c) == c \in {"0.5", "1.0", "2.0"}

\* the run has got past argument parsing and validation
CliComputing == cliPc \in {"validated", "library", "files", "done"}

(* C10: a tolerance that is not an integer >= 1, or a supplied correction
   multiplier that is not a float in [0.5, 2.0], never gets past validation:
   the library is not loaded and no output file is written; and the only
   correction values that reach the computation are -1, 0 and the floats in
   [0.5, 2.0]. *)
C10_OutOfDomainRejected ==
    /\ ( \/ (cliArgv.t # "absent" /\ ~TolTokenInDomain(cliArgv.t))
         \/ (cliArgv.c \notin {"absent", "flag"} /\ ~CorrTokenInDomain(cliArgv.c)) )
       => (~CliComputing /\ ~cliLib /\ cliOutFiles = {})
    /\ CliComputing =>
          /\ cliArgs.correction.kind = "num"
          /\ \/ cliArgs.correction.tenths \in {-10, 0}
             \/ (5 <= cliArgs.correction.tenths /\ cliArgs.correction.tenths <= 20)

-----------------------------------------------------------------------------
(* idpicker: collapse, cluster separation, minimal cover.

   A row of the input is <<peptide, protein>>.  A group is the ascending tuple
   of the identifiers it holds, and a collapsed row is
   <<peptide-group, protein-group>>. *)

RECURSIVE SortedTuple(_)
\* tuple(sorted(S))
SortedTuple(S) ==
    IF S = {} THEN <<>> ELSE <<SetMin(S)>> \o SortedTuple(S \ {SetMin(S)})

\* a < b on Python tuples of ints
TupleLess(a, b) ==
    \/ \E k \in 1..Min(Len(a), Len(b)) :
          /\ a[k] < b[k]
          /\ \A j \in 1..(k - 1) : a[j] = b[j]
    \/ /\ Len(a) < Len(b)
       /\ \A j \in 1..Len(a) : a[j] = b[j]

\* row order of the collapsed table: by peptide-group, then protein-group
RowLess(r1, r2) ==
    \/ TupleLess(r1[1], r2[1])
    \/ (r1[1] = r2[1] /\ TupleLess(r1[2], r2[2]))

RECURSIVE SortRows(_)
SortRows(rows) ==
    IF rows = {} THEN <<>>
    ELSE LET first == CHOOSE r \in rows : \A o \in rows \ {r} : RowLess(r, o)
         IN <<first>> \o SortRows(rows \ {first})

RowSet(df) == {df[i] : i \in DOMAIN df}

ProteinsOf(df, peptide) == {r[2] : r \in {x \in RowSet(df) : x[1] = peptide}}

PeptidesOf(df, protein) == {r[1] : r \in {x \in RowSet(df) : x[2] = protein}}

\* the peptides grouped by how many proteins they connect to
PeptideGroupByDegree(df, peptide) ==
    SortedTuple({r[1] : r \in {x \in RowSet(df) :
                    Cardinality(ProteinsOf(df, x[1])) = Cardinality(ProteinsOf(df, peptide))}})

\* the peptides grouped under one key: the sorted tuple of their proteins
PeptideGroup(df, peptide) ==
    SortedTuple({r[1] : r \in {x \in RowSet(df) :
                    SortedTuple(ProteinsOf(df, x[1])) = SortedTuple(ProteinsOf(df, peptide))}})

ProteinGroup(df, protein) ==
    SortedTuple({r[2] : r \in {x \in RowSet(df) :
                    SortedTuple(PeptidesOf(df, x[2])) = SortedTuple(PeptidesOf(df, protein))}})

collapse_identically_connected_peptides_and_proteins(df) ==
    SortRows({<<PeptideGroup(df, r[1]), ProteinGroup(df, r[2])>> : r \in RowSet(df)})

\* two collapsed rows share a peptide-group or a protein-group
Linked(r1, r2) == r1[1] = r2[1] \/ r1[2] = r2[2]

RECURSIVE Reach(_, _)
\* the row indices reachable from S over shared groups
Reach(df, S) ==
    LET more == {j \in DOMAIN df : \E i \in S : Linked(df[i], df[j])}
    IN IF more \subseteq S THEN S ELSE Reach(df, S \cup more)

\* the first row of the connected component of row i
FirstRowOfComponent(df, i) == SetMin(Reach(df, {i}))

\* components numbered by the row position of their first row
ClusterIdByFirstRow(df, i) == FirstRowOfComponent(df, i) - 1

\* components numbered 0, 1, 2, ... in order of first appearance
ClusterId(df, i) ==
    Cardinality({FirstRowOfComponent(df, j) : j \in 1..(FirstRowOfComponent(df, i) - 1)})

separate_independent_clusters(df) == [i \in DOMAIN df |-> ClusterId(df, i)]

\* the peptide-groups the picks made so far cover
CoveredBy(df, picks) ==
    {r[1] : r \in {x \in RowSet(df) : \E k \in DOMAIN picks : picks[k].protein = x[2]}}

Uncovered(df, picks) == {r[1] : r \in RowSet(df)} \ CoveredBy(df, picks)

\* the still-uncovered peptide-groups a protein-group would cover
Gain(df, picks, protein) ==
    Cardinality({r[1] : r \in {x \in RowSet(df) : x[2] = protein}} \cap Uncovered(df, picks))

\* the cluster being covered: the lowest id with an uncovered peptide-group
CurrentCluster(df, clusters, picks) ==
    SetMin({clusters[i] : i \in {k \in DOMAIN df : df[k][1] \in Uncovered(df, picks)}})

ProteinsOfCluster(df, clusters, c) == {df[i][2] : i \in {k \in DOMAIN df : clusters[k] = c}}

\* ties between equally good protein-groups go to the row met first
TieBreakByRow(df, best) ==
    df[SetMin({i \in DOMAIN df : df[i][2] \in best})][2]

\* ties between equally good protein-groups go to the smallest identifier
TieBreak(df, best) == CHOOSE q \in best : \A o \in best \ {q} : TupleLess(q, o)

\* the next pick of the greedy cover
NextPick(df, clusters, picks) ==
    LET c == CurrentCluster(df, clusters, picks)
        candidates == ProteinsOfCluster(df, clusters, c)
        most == SetMax({Gain(df, picks, q) : q \in candidates})
        best == {q \in candidates : Gain(df, picks, q) = most}
    IN [cluster |-> c, protein |-> TieBreak(df, best), uncoveredBefore |-> Uncovered(df, picks)]

RECURSIVE GreedyCover(_, _, _)
\* the whole selection, from the picks made so far
GreedyCover(df, clusters, picks) ==
    IF Uncovered(df, picks) = {} THEN picks
    ELSE GreedyCover(df, clusters, Append(picks, NextPick(df, clusters, picks)))

\* the 18 edges of the collapse test
ExampleEdges ==
    << <<1, 7>>, <<2, 4>>, <<2, 6>>, <<2, 9>>, <<3, 1>>, <<4, 1>>, <<4, 5>>, <<5, 7>>,
       <<6, 3>>, <<6, 6>>, <<7, 1>>, <<8, 1>>, <<8, 2>>, <<8, 5>>, <<8, 8>>, <<9, 1>>,
       <<10, 4>>, <<10, 9>> >>

\* groupedData of the two tests
ExampleGroupedData ==
    << << <<1, 5>>, <<7>> >>, << <<2>>, <<4, 9>> >>, << <<2>>, <<6>> >>,
       << <<3, 7, 9>>, <<1>> >>, << <<4>>, <<1>> >>, << <<4>>, <<5>> >>,
       << <<6>>, <<3>> >>, << <<6>>, <<6>> >>, << <<8>>, <<1>> >>,
       << <<8>>, <<2, 8>> >>, << <<8>>, <<5>> >>, << <<10>>, <<4, 9>> >> >>

\* expectedClusters of the cluster test
ExampleClusters == <<0, 1, 1, 2, 2, 2, 1, 1, 2, 2, 2, 1>>

(* Inputs: the example, and every table of at most MaxEdges distinct edges
   over IpPeptides x IpProteins, with its rows ascending or descending. *)
MaxEdges == 4

IpPeptides == 1..3

IpProteins == 1..3

RECURSIVE SortEdges(_)
\* the edges as rows in ascending (peptide, protein) order
SortEdges(edges) ==
    IF edges = {} THEN <<>>
    ELSE LET first == CHOOSE e \in edges : \A o \in edges \ {e} :
                          e[1] < o[1] \/ (e[1] = o[1] /\ e[2] < o[2])
         IN <<first>> \o SortEdges(edges \ {first})

Reversed(seq) == [i \in 1..Len(seq) |-> seq[Len(seq) + 1 - i]]

IpInit ==
    /\ ipStage = "edges"
    /\ \/ ipDf = ExampleEdges
       \/ ipDf = Reversed(ExampleEdges)
       \/ \E edges \in SUBSET (IpPeptides \X IpProteins) :
             /\ Cardinality(edges) <= MaxEdges
             /\ ipDf \in {SortEdges(edges), Reversed(SortEdges(edges))}
    /\ ipCollapsed = <<>>
    /\ ipClusters = <<>>
    /\ ipPicks = <<>>
    /\ FdrOff
    /\ CliOff
    /\ IdOff
    /\ ParOff
    /\ LoaderOff

Collapse ==
    /\ ipStage = "edges"
    /\ ipCollapsed' = collapse_identically_connected_peptides_and_proteins(ipDf)
    /\ ipStage' = "collapsed"
    /\ UNCHANGED <<ipDf, ipClusters, ipPicks>>
    /\ UNCHANGED otherThanIp

SeparateClusters ==
    /\ ipStage = "collapsed"
    /\ ipClusters' = separate_independent_clusters(ipCollapsed)
    /\ ipStage' = "clustered"
    /\ UNCHANGED <<ipDf, ipCollapsed, ipPicks>>
    /\ UNCHANGED otherThanIp

\* one step of the greedy cover
SelectProteinGroup ==
    /\ ipStage = "clustered"
    /\ Uncovered(ipCollapsed, ipPicks) # {}
    /\ ipPicks' = Append(ipPicks, NextPick(ipCollapsed, ipClusters, ipPicks))
    /\ UNCHANGED <<ipStage, ipDf, ipCollapsed, ipClusters>>
    /\ UNCHANGED otherThanIp

FinishCover ==
    /\ ipStage = "clustered"
    /\ Uncovered(ipCollapsed, ipPicks) = {}
    /\ ipStage' = "covered"
    /\ UNCHANGED <<ipDf, ipCollapsed, ipClusters, ipPicks>>
    /\ UNCHANGED otherThanIp

IpNext ==
    \/ Collapse
    \/ SeparateClusters
    \/ SelectProteinGroup
    \/ FinishCover

SpecIdpicker == IpInit /\ [][IpNext]_vars

Members(group) == {group[k] : k \in DOMAIN group}

StrictlyAscending(group) == \A k \in 1..(Len(group) - 1) : group[k] < group[k + 1]

IsExample == ipDf \in {ExampleEdges, Reversed(ExampleEdges)}

(* C6: after the collapse two peptides share a peptide-group iff they connect
   to exactly the same proteins, two proteins share a protein-group iff they
   connect to exactly the same peptides, every group is an ascending tuple,
   the collapsed rows stand for exactly the input edges, each appears once,
   rows are ordered by peptide-group then protein-group, and the 18-edge
   example gives exactly the 12 listed rows. *)
C6_CollapseGroups ==
    ipStage \in {"collapsed", "clustered", "covered"} =>
        LET rows == RowSet(ipCollapsed)
            edges == RowSet(ipDf)
        IN /\ \A e1 \in edges, e2 \in edges :
                 (\E r \in rows : e1[1] \in Members(r[1]) /\ e2[1] \in Members(r[1]))
                    <=> ({x[2] : x \in {y \in edges : y[1] = e1[1]}}
                            = {x[2] : x \in {y \in edges : y[1] = e2[1]}})
           /\ \A e1 \in edges, e2 \in edges :
                 (\E r \in rows : e1[2] \in Members(r[2]) /\ e2[2] \in Members(r[2]))
                    <=> ({x[1] : x \in {y \in edges : y[2] = e1[2]}}
                            = {x[1] : x \in {y \in edges : y[2] = e2[2]}})
           /\ \A r \in rows : StrictlyAscending(r[1]) /\ StrictlyAscending(r[2])
           /\ edges = UNION {Members(r[1]) \X Members(r[2]) : r \in rows}
           /\ \A i \in 1..(Len(ipCollapsed) - 1) : RowLess(ipCollapsed[i], ipCollapsed[i + 1])
           /\ IsExample => ipCollapsed = ExampleGroupedData

\* the 18-edge example collapsed to its 12 rows
C6_Witness ==
    /\ ipStage = "collapsed"
    /\ ipDf = ExampleEdges
    /\ Len(ipCollapsed) = 12
    /\ \E r \in RowSet(ipCollapsed) : Len(r[1]) = 3

RowsOfCluster(c) == {i \in DOMAIN ipClusters : ipClusters[i] = c}

(* C7: every collapsed row has exactly one cluster id; two rows have the same
   id iff they lie in the same connected component (linked rows share an id,
   and no cluster splits into two parts without a link between them); ids
   count from 0 in order of first appearance; the example has 3 clusters with
   ((1,5),(7,)) alone in cluster 0. *)
C7_Clusters ==
    ipStage \in {"clustered", "covered"} =>
        /\ DOMAIN ipClusters = DOMAIN ipCollapsed
        /\ \A i \in DOMAIN ipClusters, j \in DOMAIN ipClusters :
              Linked(ipCollapsed[i], ipCollapsed[j]) => ipClusters[i] = ipClusters[j]
        /\ \A i \in DOMAIN ipClusters :
              \A part \in SUBSET RowsOfCluster(ipClusters[i]) :
                 (part # {} /\ part # RowsOfCluster(ipClusters[i])) =>
                    \E a \in part, b \in RowsOfCluster(ipClusters[i]) \ part :
                       Linked(ipCollapsed[a], ipCollapsed[b])
        /\ \A i \in DOMAIN ipClusters :
              \/ \E j \in 1..(i - 1) : ipClusters[j] = ipClusters[i]
              \/ ipClusters[i] = Cardinality({ipClusters[j] : j \in 1..(i - 1)})
        /\ IsExample =>
              /\ ipClusters = ExampleClusters
              /\ {ipClusters[i] : i \in DOMAIN ipClusters} = {0, 1, 2}
              /\ RowsOfCluster(0) = {1}

\* the example separated into its three clusters, the third opening at row 4
C7_Witness ==
    /\ ipStage = "clustered"
    /\ ipDf = ExampleEdges
    /\ ipClusters[4] = 2
    /\ ipClusters[12] = 1

ClusterIds == {ipClusters[i] : i \in DOMAIN ipClusters}

PeptideGroupsOfCluster(c) == {ipCollapsed[i][1] : i \in RowsOfCluster(c)}

PeptideGroupsOfProtein(q) == {r[1] : r \in {x \in RowSet(ipCollapsed) : x[2] = q}}

\* what pick k gained: the peptide-groups of q that were uncovered before it
GainAt(k, q) == Cardinality(PeptideGroupsOfProtein(q) \cap ipPicks[k].uncoveredBefore)

(* C8: the selection ends (the uncovered peptide-groups shrink strictly with
   every pick, so there are at most as many picks as peptide-groups), and at
   its end the selected protein-groups of each cluster cover every
   peptide-group of the cluster; every pick covers at
   least one peptide-group uncovered until then and as many as any
   protein-group of its cluster could, ties going to the smallest group
   identifier; the selected set is the one obtained from the same edges in
   ascending order. *)
C8_MinimalCover ==
    /\ ipStage \in {"clustered", "covered"} =>
          /\ Len(ipPicks) <= Cardinality({r[1] : r \in RowSet(ipCollapsed)})
          /\ \A k \in 1..(Len(ipPicks) - 1) :
                ipPicks[k + 1].uncoveredBefore \subseteq ipPicks[k].uncoveredBefore
                   /\ ipPicks[k + 1].uncoveredBefore # ipPicks[k].uncoveredBefore
          /\ \A k \in DOMAIN ipPicks :
                /\ ipPicks[k].uncoveredBefore =
                      {r[1] : r \in RowSet(ipCollapsed)} \
                         UNION {PeptideGroupsOfProtein(ipPicks[j].protein) : j \in 1..(k - 1)}
                /\ GainAt(k, ipPicks[k].protein) >= 1
                /\ \A i \in RowsOfCluster(ipPicks[k].cluster) :
                      LET q == ipCollapsed[i][2]
                      IN /\ GainAt(k, q) <= GainAt(k, ipPicks[k].protein)
                         /\ (GainAt(k, q) = GainAt(k, ipPicks[k].protein) /\ q # ipPicks[k].protein)
                               => TupleLess(ipPicks[k].protein, q)
    /\ ipStage = "covered" =>
          /\ \A c \in ClusterIds :
                PeptideGroupsOfCluster(c) \subseteq
                   UNION {PeptideGroupsOfProtein(ipPicks[k].protein) :
                             k \in {j \in DOMAIN ipPicks : ipPicks[j].cluster = c}}
          /\ LET df == SortEdges(RowSet(ipDf))
                 collapsed == collapse_identically_connected_peptides_and_proteins(df)
                 picks == GreedyCover(collapsed, separate_independent_clusters(collapsed), <<>>)
             IN {ipPicks[k].protein : k \in DOMAIN ipPicks} = {picks[k].protein : k \in DOMAIN picks}

\* a finished cover of rows given in descending order, with a pick that won a
\* tie against another protein-group of its cluster
C8_Witness ==
    /\ ipStage = "covered"
    /\ ipDf # SortEdges(RowSet(ipDf))
    /\ Len(ipPicks) >= 2
    /\ \E k \in DOMAIN ipPicks : \E i \in RowsOfCluster(ipPicks[k].cluster) :
          /\ ipCollapsed[i][2] # ipPicks[k].protein
          /\ GainAt(k, ipCollapsed[i][2]) = GainAt(k, ipPicks[k].protein)

-----------------------------------------------------------------------------
(* Identifier: matching, scoring, correction and output of each query file.

   m/z values are integers in 1/1000 Th.  A peak is <<mz, intensity, id>>, id
   being the library key index of a library peak and the scan of a query
   peak.  Library m/z values are multiples of 1000 that divide 10^6 times
   every difference met within tolerance, so ppmDifference =
   (queryMz - libraryMz) * 10^6 / libraryMz is an integer; it is computed as
   (queryMz - libraryMz) * 1000 / (libraryMz / 1000) to stay within 32 bits. *)

RECURSIVE SumOver(_, _)
\* the sum of f[x] over the set S
SumOver(f, S) ==
    IF S = {} THEN 0
    ELSE LET x == CHOOSE y \in S : TRUE IN f[x] + SumOver(f, S \ {x})

\* the library file as LibraryLoaderContext(...).load_csodiaq_library_dict()
\* returns it: (precursorMz, peptide) -> spectrum, peaks sorted by intensity
LoadedLibrary ==
    (<<400000, 1>> :> [precursorCharge |-> 2, identification |-> "t1", proteinName |-> "protA",
                       peaks |-> << <<100000, 3, 0>>, <<200000, 2, 0>>, <<500000, 1, 0>> >>,
                       csodiaqKeyIdx |-> 0, isDecoy |-> 0])
    @@ (<<400000, 2>> :> [precursorCharge |-> 2, identification |-> "d1", proteinName |-> "DECOY_protA",
                       peaks |-> << <<200000, 3, 1>>, <<250000, 2, 1>>, <<100000, 1, 1>> >>,
                       csodiaqKeyIdx |-> 1, isDecoy |-> 1])
    @@ (<<600000, 3>> :> [precursorCharge |-> 3, identification |-> "t2", proteinName |-> "protB",
                       peaks |-> << <<500000, 3, 2>>, <<100000, 2, 2>>, <<250000, 1, 2>> >>,
                       csodiaqKeyIdx |-> 2, isDecoy |-> 0])

\* key order of sorted(self._libraryDict.keys()): tuples compare element-wise
LibKeyLess(a, b) == a[1] < b[1] \/ (a[1] = b[1] /\ a[2] < b[2])

RECURSIVE SortKeys(_)
SortKeys(keys) ==
    IF keys = {} THEN <<>>
    ELSE LET first == CHOOSE k \in keys : \A o \in keys \ {k} : LibKeyLess(k, o)
         IN <<first>> \o SortKeys(keys \ {first})

\* the fragment m/z values a scan of each isolation window may hold
Scan1Mzs == {99999, 100000, 200002, 500010}

Scan2MzSets == {{100000, 250000}, {100000, 250000, 500005}}

QueryIntensity(mz) ==
    CASE mz = 99999 -> 1
      [] mz = 100000 -> 3
      [] mz = 200002 -> 2
      [] mz = 500010 -> 1
      [] mz = 250000 -> 2
      [] mz = 500005 -> 1

RECURSIVE SortPeaks(_)
\* peaks in ascending m/z order (ties by id, then intensity)
SortPeaks(peaks) ==
    IF peaks = {} THEN <<>>
    ELSE LET first == CHOOSE x \in peaks : \A o \in peaks \ {x} :
                         \/ x[1] < o[1]
                         \/ (x[1] = o[1] /\ x[3] < o[3])
                         \/ (x[1] = o[1] /\ x[3] = o[3] /\ x[2] < o[2])
         IN <<first>> \o SortPeaks(peaks \ {first})

Scan(scanId, precursorMz, mzs) ==
    [precursorMz |-> precursorMz, windowWidth |-> 2000, CV |-> 30,
     peaksCount |-> Cardinality(mzs),
     peaks |-> SortPeaks({<<mz, QueryIntensity(mz), scanId>> : mz \in mzs})]

\* what QueryLoaderContext(queryFile) can hold: no scan at all, or scan 1 in
\* the window around 400 Th and possibly scan 2 in the window around 600 Th
QueryContexts(queryFile) ==
    {[filePath |-> queryFile, scans |-> <<>>]}
    \cup {[filePath |-> queryFile, scans |-> (1 :> Scan(1, 400000, mzs1))] : mzs1 \in SUBSET Scan1Mzs}
    \cup {[filePath |-> queryFile,
           scans |-> (1 :> Scan(1, 400000, mzs1)) @@ (2 :> Scan(2, 600000, mzs2))] :
             mzs1 \in SUBSET Scan1Mzs, mzs2 \in Scan2MzSets}

PeakSet(peaks) == {peaks[i] : i \in DOMAIN peaks}

\* the isolation windows of the query file, as <<centre, width>>
Windows(context) ==
    {<<context.scans[q].precursorMz, context.scans[q].windowWidth>> : q \in DOMAIN context.scans}

\* a precursor m/z lies in a window
InWindow(precursorMz, window) == 2 * Abs(precursorMz - window[1]) <= window[2]

RECURSIVE SortWindows(_)
SortWindows(windows) ==
    IF windows = {} THEN <<>>
    ELSE LET first == CHOOSE w \in windows : \A o \in windows \ {w} : LibKeyLess(w, o)
         IN <<first>> \o SortWindows(windows \ {first})

\* one (pooledLibPeaks, pooledQueryPeaks) pair per window, each sorted by m/z
generate_pooled_library_and_query_spectra_by_mz_windows(library, context) ==
    LET windows == SortWindows(Windows(context))
    IN [w \in DOMAIN windows |->
          [libPeaks |-> SortPeaks(UNION {PeakSet(library[k].peaks) :
                            k \in {x \in DOMAIN library : InWindow(x[1], windows[w])}}),
           queryPeaks |-> SortPeaks(UNION {PeakSet(context.scans[q].peaks) :
                            q \in {x \in DOMAIN context.scans :
                                     InWindow(context.scans[x].precursorMz, windows[w])}})]]

\* the query peak lies below (above) the tolerance window of the library peak
BelowWindow(libMz, queryMz, ppmTolerance) ==
    (libMz - queryMz) * 1000 > ppmTolerance * (libMz \div 1000)

AboveWindow(libMz, queryMz, ppmTolerance) ==
    (queryMz - libMz) * 1000 > ppmTolerance * (libMz \div 1000)

MatchRow(libPeak, queryPeak) ==
    [libraryIdx |-> libPeak[3], queryIdx |-> queryPeak[3],
     libraryMz |-> libPeak[1], queryMz |-> queryPeak[1],
     libraryIntensity |-> libPeak[2], queryIntensity |-> queryPeak[2],
     ppmDifference |-> ((queryPeak[1] - libPeak[1]) * 1000) \div (libPeak[1] \div 1000)]

\* the sweep for one library peak over the m/z-sorted query peaks: from the
\* first query peak not below the window, while the peaks are not above it
MatchesOfLibraryPeak(libPeak, queryPeaks, ppmTolerance) ==
    LET n == Len(queryPeaks)
        notBelow == {j \in 1..n : ~BelowWindow(libPeak[1], queryPeaks[j][1], ppmTolerance)}
        start == IF notBelow = {} THEN n + 1 ELSE SetMin(notBelow)
        above == {j \in start..n : AboveWindow(libPeak[1], queryPeaks[j][1], ppmTolerance)}
        stop == IF above = {} THEN n ELSE SetMin(above) - 1
    IN [k \in 1..(stop - start + 1) |-> MatchRow(libPeak, queryPeaks[start + k - 1])]

RECURSIVE Concat(_, _)
\* pd.concat of the tables seqs[i], i from 1 to n
Concat(seqs, n) == IF n = 0 THEN <<>> ELSE Concat(seqs, n - 1) \o seqs[n]

match_library_to_query_pooled_spectra(libPeaks, queryPeaks, ppmTolerance) ==
    Concat([i \in DOMAIN libPeaks |-> MatchesOfLibraryPeak(libPeaks[i], queryPeaks, ppmTolerance)],
           Len(libPeaks))

GroupOf(row) == <<row.libraryIdx, row.queryIdx>>

Groups(df) == {GroupOf(df[i]) : i \in DOMAIN df}

GroupCount(df, group) == Cardinality({i \in DOMAIN df : GroupOf(df[i]) = group})

\* df[mask]: the rows whose index is in keep, in their order
RECURSIVE SelectRows(_, _, _)
SelectRows(df, keep, n) ==
    IF n = 0 THEN <<>>
    ELSE IF n \in keep THEN Append(SelectRows(df, keep, n - 1), df[n])
    ELSE SelectRows(df, keep, n - 1)

\* the minimum number of matched peaks of a (library, query) group
MinNumMatches == 3

eliminate_low_count_matches(df) ==
    SelectRows(df, {i \in DOMAIN df : GroupCount(df, GroupOf(df[i])) >= MinNumMatches}, Len(df))

\* matchDf[matchDf group in groups]
eliminate_matches_below_fdr_cutoff(df, groups) ==
    SelectRows(df, {i \in DOMAIN df : GroupOf(df[i]) \in groups}, Len(df))

\* the scale that makes every weight MaccScale / rank an integer (rank <= 4)
MaccScale == 12

\* the scores of one (library, query) group.  cosineScore is kept exact as
\* <<dot^2, |lib|^2 * |query|^2>>, the square of dot / (|lib| * |query|);
\* maccScore is the sum of MaccScale / rank over the matched peaks, rank being
\* the rank of the library peak's intensity among the matched peaks
ScoreRow(df, group) ==
    LET rows == {i \in DOMAIN df : GroupOf(df[i]) = group}
        dot == SumOver([i \in rows |-> df[i].libraryIntensity * df[i].queryIntensity], rows)
        lib2 == SumOver([i \in rows |-> df[i].libraryIntensity * df[i].libraryIntensity], rows)
        query2 == SumOver([i \in rows |-> df[i].queryIntensity * df[i].queryIntensity], rows)
        rank == [i \in rows |->
                   1 + Cardinality({j \in rows : df[j].libraryIntensity > df[i].libraryIntensity})]
    IN [libraryIdx |-> group[1], queryIdx |-> group[2],
        cosineScore |-> <<dot * dot, lib2 * query2>>,
        maccScore |-> SumOver([i \in rows |-> MaccScale \div rank[i]], rows)]

CosineGreater(a, b) == a.cosineScore[1] * b.cosineScore[2] > b.cosineScore[1] * a.cosineScore[2]

\* a is ranked before b: by cosineScore descending, then maccScore descending
\* (rows that tie in both are put in group order)
RankedBefore(a, b) ==
    \/ CosineGreater(a, b)
    \/ (~CosineGreater(b, a) /\ a.maccScore > b.maccScore)
    \/ (~CosineGreater(b, a) /\ a.maccScore = b.maccScore /\ LibKeyLess(GroupOf(a), GroupOf(b)))

RECURSIVE SortScores(_)
SortScores(rows) ==
    IF rows = {} THEN <<>>
    ELSE LET first == CHOOSE r \in rows : \A o \in rows \ {r} : RankedBefore(r, o)
         IN <<first>> \o SortScores(rows \ {first})

score_library_to_query_matches(df) == SortScores({ScoreRow(df, g) : g \in Groups(df)})

\* libraryIdx == key in Python, for a key of the library dictionary (a tuple
\* (precursorMz, peptide)) and the int libraryIdx of a Score row: never equal
KeyEqualsLibraryIdx(key, libraryIdx) == FALSE

\* np.where(scoreDf["libraryIdx"].isin(decoySet), 1, 0)
identify_all_decoys(decoys, df) ==
    [i \in DOMAIN df |-> IF \E key \in decoys : KeyEqualsLibraryIdx(key, df[i].libraryIdx)
                         THEN 1 ELSE 0]

\* score, flag the decoys, cut at the FDR cutoff
score_spectra_matches(df, decoys) ==
    LET scored == score_library_to_query_matches(df)
        isDecoyArray == identify_all_decoys(decoys, scored)
        scoreDfCutoffIdx == determine_index_of_fdr_cutoff(isDecoyArray)
    IN RowsAboveCutoff(scored, scoreDfCutoffIdx)

PpmValues(df) == {df[i].ppmDifference : i \in DOMAIN df}

\* the step of the grid the offsets and tolerances are drawn from
PpmStep == 10

\* what calculate_ppm_offset_tolerance may return for a ppmDifference column:
\* the offset (a mean, or the centre of the tallest histogram bin) lies
\* between the least and the greatest value, the tolerance is not negative
PpmOffsetTolerances(ppms) ==
    IF ppms = {} THEN {<<0, 0>>}
    ELSE {<<offset, tolerance>> :
            offset \in {o \in SetMin(ppms)..SetMax(ppms) : o % PpmStep = 0},
            tolerance \in {0, PpmStep}}

filter_matches_by_ppm_offset_and_tolerance(df, offset, tolerance) ==
    SelectRows(df, {i \in DOMAIN df : /\ df[i].ppmDifference >= offset - tolerance
                                      /\ df[i].ppmDifference <= offset + tolerance}, Len(df))

\* the correction applied to the groups the FDR filter rejected as well
apply_correction_to_all_groups(df, scores, offset, tolerance) ==
    eliminate_low_count_matches(filter_matches_by_ppm_offset_and_tolerance(df, offset, tolerance))

\* the correction without its ppm filter
apply_correction_without_ppm_filter(df, scores, offset, tolerance) ==
    eliminate_low_count_matches(eliminate_matches_below_fdr_cutoff(df, Groups(scores)))

\* the ppm filter without the low-count elimination after it
apply_correction_without_elimination(df, scores, offset, tolerance) ==
    filter_matches_by_ppm_offset_and_tolerance(
        eliminate_matches_below_fdr_cutoff(df, Groups(scores)), offset, tolerance)

apply_correction_to_match_dataframe(df, scores, offset, tolerance) ==
    LET aboveCutoffGroups == Groups(scores)
        kept == eliminate_matches_below_fdr_cutoff(df, aboveCutoffGroups)
    IN eliminate_low_count_matches(filter_matches_by_ppm_offset_and_tolerance(kept, offset, tolerance))

\* queryContext.extract_metadata_from_query_scans()
extract_metadata_from_query_scans(context) ==
    [q \in DOMAIN context.scans |->
       [precursorMz |-> context.scans[q].precursorMz,
        windowWidth |-> context.scans[q].windowWidth,
        peaksCount |-> context.scans[q].peaksCount,
        CV |-> context.scans[q].CV]]

\* a row at the precursor m/z counted into ionCount
extract_metadata_counting_precursor_mz(df, group, queryMetadata) ==
    LET rows == {i \in DOMAIN df : GroupOf(df[i]) = group}
        above == {i \in rows : df[i].queryMz >= queryMetadata.precursorMz}
    IN [shared |-> Cardinality(rows),
        ionCount |-> SumOver([i \in above |-> df[i].queryIntensity], above),
        exclude_num |-> Cardinality(rows) - Cardinality(above)]

extract_metadata_from_match_dataframe_groupby(df, group, queryMetadata) ==
    LET rows == {i \in DOMAIN df : GroupOf(df[i]) = group}
        above == {i \in rows : df[i].queryMz > queryMetadata.precursorMz}
    IN [shared |-> Cardinality(rows),
        ionCount |-> SumOver([i \in above |-> df[i].queryIntensity], above),
        exclude_num |-> Cardinality(rows) - Cardinality(above)]

\* libraryMetadata["precursorMz"] = libKey[0]; libraryMetadata["peptide"] = libKey[1]
\* on the entry of the library dictionary itself
prepare_library_dictionary_for_output(library, libKey) ==
    [k \in DOMAIN library |->
       IF k = libKey
       THEN [f \in DOMAIN library[k] \cup {"precursorMz", "peptide"} |->
               IF f = "precursorMz" THEN libKey[1]
               ELSE IF f = "peptide" THEN libKey[2]
               ELSE library[k][f]]
       ELSE library[k]]

RECURSIVE PrepareAll(_, _, _, _)
\* the library dictionary after the output loop has gone over the first n rows
PrepareAll(library, sortedLibKeys, scores, n) ==
    IF n = 0 THEN library
    ELSE prepare_library_dictionary_for_output(
             PrepareAll(library, sortedLibKeys, scores, n - 1),
             sortedLibKeys[scores[n].libraryIdx + 1])

\* the 17 values of an output line, in column order
format_output_line(libKey, libMetadata, queryScan, queMetadata, matchMetadata, scoreRow) ==
    <<queryScan, queMetadata.precursorMz, libKey[2], libMetadata.proteinName,
      libMetadata.isDecoy, libKey[1], libMetadata.precursorCharge, scoreRow.cosineScore,
      libMetadata.identification, queMetadata.peaksCount, Len(libMetadata.peaks),
      matchMetadata.shared, matchMetadata.ionCount, queMetadata.CV, queMetadata.windowWidth,
      scoreRow.maccScore, matchMetadata.exclude_num>>

\* the keys of the Score table but the last
MetadataKeysButLast(scores) ==
    [n \in 1..(Len(scores) - 1) |-> GroupOf(scores[n])]

\* the keys of the metadata dictionary: those of the Score table, each once,
\* in the order of the table
MetadataKeys(scores) ==
    SelectRows([n \in DOMAIN scores |-> GroupOf(scores[n])],
               {n \in DOMAIN scores : \A m \in 1..(n - 1) : GroupOf(scores[m]) # GroupOf(scores[n])},
               Len(scores))

\* {k: {**matchDict[k], **scoreDict[k]} for k in scoreDict.keys()}
extract_metadata_from_match_and_score_dataframes(matches, scores, queryDict) ==
    LET keys == MetadataKeys(scores)
    IN [n \in DOMAIN keys |->
          LET row == scores[CHOOSE m \in DOMAIN scores :
                              /\ GroupOf(scores[m]) = keys[n]
                              /\ \A o \in (m + 1)..Len(scores) : GroupOf(scores[o]) # keys[n]]
          IN [key |-> keys[n],
              match |-> extract_metadata_from_match_dataframe_groupby(matches, keys[n],
                                                                      queryDict[keys[n][2]]),
              score |-> row]]

\* one output line per key of the metadata dictionary
OutputLines(library, context, matches, scores) ==
    LET queryDict == extract_metadata_from_query_scans(context)
        sortedLibKeys == SortKeys(DOMAIN library)
        matchDict == extract_metadata_from_match_and_score_dataframes(matches, scores, queryDict)
    IN [n \in DOMAIN matchDict |->
          LET libKey == sortedLibKeys[matchDict[n].key[1] + 1]
              queryScan == matchDict[n].key[2]
          IN format_output_line(libKey, library[libKey], queryScan, queryDict[queryScan],
                                matchDict[n].match, matchDict[n].score)]

OutputColumns ==
    <<"scan", "MzEXP", "peptide", "protein", "isDecoy", "MzLIB", "zLIB", "cosine", "name",
      "Peak(Query)", "Peaks(Library)", "shared", "ionCount", "CompensationVoltage",
      "totalWindowWidth", "MaCC_Score", "exclude_num">>

\* pd.DataFrame(outputData) without column names: no column when there is no line
format_output_without_columns(inputFileName, outputData) ==
    [columns |-> IF outputData = <<>> THEN <<>> ELSE <<"fileName">> \o OutputColumns,
     rows |-> [n \in DOMAIN outputData |-> <<inputFileName>> \o outputData[n]]]

\* pd.DataFrame(outputData, columns=columns) with the fileName column put first
format_output_as_pandas_dataframe(inputFileName, outputData) ==
    [columns |-> <<"fileName">> \o OutputColumns,
     rows |-> [n \in DOMAIN outputData |-> <<inputFileName>> \o outputData[n]]]

\* the '_corrected' suffix put on every path
create_corrected_outfile_path(queryFile, correction) ==
    [file |-> queryFile, corrected |-> TRUE]

\* outDirectory + 'CsoDIAq-file_' + name (+ '_corrected') + '.csv'
create_outfile_path(queryFile, correction) ==
    [file |-> queryFile, corrected |-> correction # -1]

\* the most query files of a run
MaxFiles == 2

FragmentMassTolerances == {10, DefaultFragmentMassTolerance}

\* -1: no correction; 0: histogram mode; 1: one standard deviation
Corrections == {-1, 0, 1}

DecoyKeys(library) == {key \in DOMAIN library : library[key].isDecoy = 1}

\* the Identifier after __init__(args)
Init ==
    /\ FdrOff /\ CliOff /\ IpOff /\ ParOff /\ LoaderOff
    /\ pc = "load"
    /\ args \in {[fragmentMassTolerance |-> t, correction |-> c, files |-> [i \in 1..n |-> i]] :
                   t \in FragmentMassTolerances, c \in Corrections, n \in 1..MaxFiles}
    /\ libraryDict = LoadedLibrary
    /\ decoySet = DecoyKeys(LoadedLibrary)
    /\ fileIdx = 1
    /\ queryContext = <<>>
    /\ pooled = <<>>
    /\ matchDf = <<>>
    /\ scoreDf = <<>>
    /\ ppmWindow = <<>>
    /\ outputDf = <<>>
    /\ outFiles = {}

\* for queryFile in files: self._queryContext = QueryLoaderContext(queryFile)
LoadQuery ==
    /\ pc = "load"
    /\ fileIdx <= Len(args.files)
    /\ \E context \in QueryContexts(args.files[fileIdx]) : queryContext' = context
    /\ pooled' = <<>>
    /\ matchDf' = <<>>
    /\ scoreDf' = <<>>
    /\ ppmWindow' = <<>>
    /\ outputDf' = <<>>
    /\ pc' = "match"
    /\ UNCHANGED <<args, libraryDict, decoySet, fileIdx, outFiles>>
    /\ UNCHANGED otherThanId

\* the default tolerance passed whatever the arguments say
DefaultToleranceArgument(arguments) == DefaultFragmentMassTolerance

\* self._args["fragmentMassTolerance"], the tolerance handed to the matcher
FragmentMassToleranceArgument(arguments) == arguments.fragmentMassTolerance

\* matchDf = self._match_library_to_query_spectra(); pd.concat raises
\* ValueError on an empty list, which ends the run
MatchLibraryToQuerySpectra ==
    /\ pc = "match"
    /\ LET pools == generate_pooled_library_and_query_spectra_by_mz_windows(libraryDict, queryContext)
           matched == [w \in DOMAIN pools |->
                         match_library_to_query_pooled_spectra(pools[w].libPeaks, pools[w].queryPeaks,
                                                               FragmentMassToleranceArgument(args))]
       IN IF pools = <<>>
          THEN /\ pc' = "error"
               /\ UNCHANGED <<pooled, matchDf>>
          ELSE /\ pooled' = [w \in DOMAIN pools |->
                               [libPeaks |-> pools[w].libPeaks, queryPeaks |-> pools[w].queryPeaks,
                                matches |-> matched[w]]]
               /\ matchDf' = Concat([w \in DOMAIN pools |-> eliminate_low_count_matches(matched[w])],
                                    Len(pools))
               /\ pc' = "score"
    /\ UNCHANGED <<args, libraryDict, decoySet, fileIdx, queryContext, scoreDf, ppmWindow,
                   outputDf, outFiles>>
    /\ UNCHANGED otherThanId

\* scoreDf = self._score_spectra_matches(matchDf)
ScoreSpectraMatches ==
    /\ pc = "score"
    /\ scoreDf' = score_spectra_matches(matchDf, decoySet)
    /\ pc' = "correct"
    /\ UNCHANGED <<args, libraryDict, decoySet, fileIdx, queryContext, pooled, matchDf, ppmWindow,
                   outputDf, outFiles>>
    /\ UNCHANGED otherThanId

\* matchDf, scoreDf = self._apply_correction_to_dataframes(matchDf, scoreDf)
ApplyCorrectionToDataframes ==
    /\ pc = "correct"
    /\ IF args.correction = -1
       THEN UNCHANGED <<matchDf, scoreDf, ppmWindow>>
       ELSE LET kept == eliminate_matches_below_fdr_cutoff(matchDf, Groups(scoreDf))
            IN \E window \in PpmOffsetTolerances(PpmValues(kept)) :
                 LET corrected == apply_correction_to_match_dataframe(matchDf, scoreDf,
                                                                      window[1], window[2])
                 IN /\ matchDf' = corrected
                    /\ scoreDf' = score_spectra_matches(corrected, decoySet)
                    /\ ppmWindow' = window
    /\ pc' = "write"
    /\ UNCHANGED <<args, libraryDict, decoySet, fileIdx, queryContext, pooled, outputDf, outFiles>>
    /\ UNCHANGED otherThanId

\* self._write_identifications_to_dataframe(matchDf, scoreDf)
WriteIdentificationsToDataframe ==
    /\ pc = "write"
    /\ outputDf' = format_output_as_pandas_dataframe(queryContext.filePath,
                     OutputLines(libraryDict, queryContext, matchDf, scoreDf))
    /\ libraryDict' = PrepareAll(libraryDict, SortKeys(DOMAIN libraryDict), scoreDf, Len(scoreDf))
    /\ outFiles' = outFiles \cup {create_outfile_path(queryContext.filePath, args.correction)}
    /\ fileIdx' = fileIdx + 1
    /\ pc' = "load"
    /\ UNCHANGED <<args, decoySet, queryContext, pooled, matchDf, scoreDf, ppmWindow>>
    /\ UNCHANGED otherThanId

\* the loop over the query files has ended
FinishRun ==
    /\ pc = "load"
    /\ fileIdx > Len(args.files)
    /\ pc' = "done"
    /\ UNCHANGED <<args, libraryDict, decoySet, fileIdx, queryContext, pooled, matchDf, scoreDf,
                   ppmWindow, outputDf, outFiles>>
    /\ UNCHANGED otherThanId

Next ==
    \/ LoadQuery
    \/ MatchLibraryToQuerySpectra
    \/ ScoreSpectraMatches
    \/ ApplyCorrectionToDataframes
    \/ WriteIdentificationsToDataframe
    \/ FinishRun

Spec == Init /\ [][Next]_vars


(* The correction and output steps on their own:
   _apply_correction_to_dataframes and _write_identifications_to_dataframe
   applied to the Match table of a first pass, to a Score table cut by the FDR
   filter at any index, and to query scans whose precursor m/z lies among, at
   or above the matched query peaks. *)

\* the pooled peaks of a file and the table the matcher returns for each pool
PooledMatches(library, context, ppmTolerance) ==
    LET pools == generate_pooled_library_and_query_spectra_by_mz_windows(library, context)
    IN [w \in DOMAIN pools |->
          [libPeaks |-> pools[w].libPeaks, queryPeaks |-> pools[w].queryPeaks,
           matches |-> match_library_to_query_pooled_spectra(pools[w].libPeaks,
                                                             pools[w].queryPeaks, ppmTolerance)]]

\* the Match table _match_library_to_query_spectra returns
FirstPassMatches(library, context, ppmTolerance) ==
    LET pools == generate_pooled_library_and_query_spectra_by_mz_windows(library, context)
    IN Concat([w \in DOMAIN pools |->
                 eliminate_low_count_matches(
                     match_library_to_query_pooled_spectra(pools[w].libPeaks, pools[w].queryPeaks,
                                                           ppmTolerance))],
              Len(pools))

\* precursor m/z values of the query metadata: 0 stands for the scan's own
PrecursorMzChoices == {0, 100000, 200002}

WithPrecursorMz(context, precursorMz) ==
    IF precursorMz = 0 THEN context
    ELSE [filePath |-> context.filePath,
          scans |-> [q \in DOMAIN context.scans |->
                       [context.scans[q] EXCEPT !.precursorMz = precursorMz]]]

WriteInit ==
    /\ FdrOff /\ CliOff /\ IpOff /\ ParOff /\ LoaderOff
    /\ pc = "correct"
    /\ args \in {[fragmentMassTolerance |-> t, correction |-> c, files |-> <<1>>] :
                   t \in FragmentMassTolerances, c \in Corrections}
    /\ libraryDict = LoadedLibrary
    /\ decoySet = DecoyKeys(LoadedLibrary)
    /\ fileIdx = 1
    /\ \E context \in {x \in QueryContexts(1) : x.scans # <<>>},
          precursorMz \in PrecursorMzChoices :
         /\ queryContext = WithPrecursorMz(context, precursorMz)
         /\ matchDf = FirstPassMatches(LoadedLibrary, context, args.fragmentMassTolerance)
         /\ pooled = PooledMatches(LoadedLibrary, context, args.fragmentMassTolerance)
    /\ \E scoreDfCutoffIdx \in 0..Cardinality(Groups(matchDf)) :
         scoreDf = RowsAboveCutoff(score_library_to_query_matches(matchDf), scoreDfCutoffIdx)
    /\ ppmWindow = <<>>
    /\ outputDf = <<>>
    /\ outFiles = {}

WriteNext ==
    \/ ApplyCorrectionToDataframes
    \/ WriteIdentificationsToDataframe
    \/ FinishRun

SpecWrite == WriteInit /\ [][WriteNext]_vars


-----------------------------------------------------------------------------
(* Two workers, one per query file, run the steps of the loop body of
   identify_library_spectra_in_queries on one shared Identifier.  matchDf and
   scoreDf are locals of a worker; self._queryContext, self._libraryDict and
   self._args belong to the Identifier the workers share. *)

Workers == {1, 2}

\* the content a worker's query file may have
ParContexts(queryFile) ==
    {[filePath |-> queryFile, scans |-> (1 :> Scan(1, 400000, {100000, 200002, 500010}))],
     [filePath |-> queryFile, scans |-> (1 :> Scan(1, 400000, {99999, 100000, 200002}))],
     [filePath |-> queryFile, scans |-> (1 :> Scan(1, 400000, {100000, 200002, 500010}))
                                        @@ (2 :> Scan(2, 600000, {100000, 250000, 500005}))]}

ParInit ==
    /\ FdrOff /\ CliOff /\ IpOff /\ IdOff /\ LoaderOff
    /\ parPc = [w \in Workers |-> "load"]
    /\ parArgs \in {[fragmentMassTolerance |-> t, correction |-> c, files |-> <<1, 2>>] :
                      t \in FragmentMassTolerances, c \in {-1, 0}}
    /\ parFiles \in {f \in [Workers -> UNION {ParContexts(w) : w \in Workers}] :
                       \A w \in Workers : f[w].filePath = w}
    /\ parQueryContext = <<>>
    /\ parLibraryDict = LoadedLibrary
    /\ parMatchDf = [w \in Workers |-> <<>>]
    /\ parScoreDf = [w \in Workers |-> <<>>]
    /\ parOutFiles = {}

\* self._queryContext = QueryLoaderContext(queryFile)
ParLoad(w) ==
    /\ parPc[w] = "load"
    /\ parQueryContext' = parFiles[w]
    /\ parPc' = [parPc EXCEPT ![w] = "match"]
    /\ UNCHANGED <<parArgs, parFiles, parLibraryDict, parMatchDf, parScoreDf, parOutFiles>>
    /\ UNCHANGED otherThanPar

\* matchDf = self._match_library_to_query_spectra()
ParMatch(w) ==
    /\ parPc[w] = "match"
    /\ parMatchDf' = [parMatchDf EXCEPT ![w] =
                        FirstPassMatches(parLibraryDict, parQueryContext,
                                         FragmentMassToleranceArgument(parArgs))]
    /\ parPc' = [parPc EXCEPT ![w] = "score"]
    /\ UNCHANGED <<parArgs, parFiles, parQueryContext, parLibraryDict, parScoreDf, parOutFiles>>
    /\ UNCHANGED otherThanPar

\* scoreDf = self._score_spectra_matches(matchDf)
ParScore(w) ==
    /\ parPc[w] = "score"
    /\ parScoreDf' = [parScoreDf EXCEPT ![w] =
                        score_spectra_matches(parMatchDf[w], DecoyKeys(LoadedLibrary))]
    /\ parPc' = [parPc EXCEPT ![w] = "correct"]
    /\ UNCHANGED <<parArgs, parFiles, parQueryContext, parLibraryDict, parMatchDf, parOutFiles>>
    /\ UNCHANGED otherThanPar

\* matchDf, scoreDf = self._apply_correction_to_dataframes(matchDf, scoreDf)
ParCorrect(w) ==
    /\ parPc[w] = "correct"
    /\ IF parArgs.correction = -1
       THEN UNCHANGED <<parMatchDf, parScoreDf>>
       ELSE LET kept == eliminate_matches_below_fdr_cutoff(parMatchDf[w], Groups(parScoreDf[w]))
            IN \E window \in PpmOffsetTolerances(PpmValues(kept)) :
                 LET corrected == apply_correction_to_match_dataframe(
                                      parMatchDf[w], parScoreDf[w], window[1], window[2])
                 IN /\ parMatchDf' = [parMatchDf EXCEPT ![w] = corrected]
                    /\ parScoreDf' = [parScoreDf EXCEPT ![w] =
                                        score_spectra_matches(corrected, DecoyKeys(LoadedLibrary))]
    /\ parPc' = [parPc EXCEPT ![w] = "write"]
    /\ UNCHANGED <<parArgs, parFiles, parQueryContext, parLibraryDict, parOutFiles>>
    /\ UNCHANGED otherThanPar

\* self._write_identifications_to_dataframe(matchDf, scoreDf); the metadata
\* of a scan that self._queryContext does not hold is a KeyError
ParWrite(w) ==
    /\ parPc[w] = "write"
    /\ IF \E m \in DOMAIN parMatchDf[w] : parMatchDf[w][m].queryIdx \notin DOMAIN parQueryContext.scans
       THEN /\ parPc' = [parPc EXCEPT ![w] = "error"]
            /\ UNCHANGED <<parLibraryDict, parOutFiles>>
       ELSE LET outFile == create_outfile_path(parQueryContext.filePath, parArgs.correction)
                table == format_output_as_pandas_dataframe(parQueryContext.filePath,
                             OutputLines(parLibraryDict, parQueryContext, parMatchDf[w],
                                         parScoreDf[w]))
            IN /\ parOutFiles' = {f \in parOutFiles : f[1] # outFile} \cup {<<outFile, table>>}
               /\ parLibraryDict' = PrepareAll(parLibraryDict, SortKeys(DOMAIN parLibraryDict),
                                               parScoreDf[w], Len(parScoreDf[w]))
               /\ parPc' = [parPc EXCEPT ![w] = "done"]
    /\ UNCHANGED <<parArgs, parFiles, parQueryContext, parMatchDf, parScoreDf>>
    /\ UNCHANGED otherThanPar

ParNext ==
    \E w \in Workers :
      \/ ParLoad(w)
      \/ ParMatch(w)
      \/ ParScore(w)
      \/ ParCorrect(w)
      \/ ParWrite(w)

SpecParallel == ParInit /\ [][ParNext]_vars


-----------------------------------------------------------------------------
(* Library loader: the peak list of a library spectrum *)

\* list(zip(mz, intensities, [id] * len(mz)))
create_peaks_from_mz_intensity_lists_and_csodiaq_key_id(mz, intensities, id) ==
    [i \in 1..Min(Len(mz), Len(intensities)) |-> <<mz[i], intensities[i], id>>]

\* x put into a list sorted by descending intensity, behind the peaks of
\* equal intensity
InsertByIntensity(sorted, x) ==
    LET before == {i \in DOMAIN sorted : sorted[i][2] >= x[2]}
        k == Cardinality(before)
    IN SubSeq(sorted, 1, k) \o <<x>> \o SubSeq(sorted, k + 1, Len(sorted))

RECURSIVE SortFirstByIntensity(_, _)
\* the first n peaks sorted by peaks.sort(key=lambda x: x[1], reverse=True):
\* a stable sort, peaks of equal intensity keep their order
SortFirstByIntensity(peaks, n) ==
    IF n = 0 THEN <<>>
    ELSE InsertByIntensity(SortFirstByIntensity(peaks, n - 1), peaks[n])

sort_by_intensity_reversed(peaks) == SortFirstByIntensity(peaks, Len(peaks))

RECURSIVE ReverseSeq(_)
ReverseSeq(seq) == IF seq = <<>> THEN <<>> ELSE ReverseSeq(Tail(seq)) \o <<Head(seq)>>

\* x put into a list sorted by ascending intensity, behind the peaks of equal
\* intensity
InsertByIntensityAscending(sorted, x) ==
    LET before == {i \in DOMAIN sorted : sorted[i][2] <= x[2]}
        k == Cardinality(before)
    IN SubSeq(sorted, 1, k) \o <<x>> \o SubSeq(sorted, k + 1, Len(sorted))

RECURSIVE SortFirstAscending(_, _)
SortFirstAscending(peaks, n) ==
    IF n = 0 THEN <<>>
    ELSE InsertByIntensityAscending(SortFirstAscending(peaks, n - 1), peaks[n])

\* sorted ascending, then reversed: peaks of equal intensity change places
remove_low_intensity_peaks_ascending_reversed(peaks, maxPeakNum) ==
    SubSeq(ReverseSeq(SortFirstAscending(peaks, Len(peaks))), 1, Min(maxPeakNum, Len(peaks)))

\* peaks.sort(key=lambda x: x[1], reverse=True); return peaks[:maxPeakNum]
remove_low_intensity_peaks_below_max_peak_num(peaks, maxPeakNum) ==
    SubSeq(sort_by_intensity_reversed(peaks), 1, Min(maxPeakNum, Len(peaks)))

\* the most peaks of a library spectrum
MaxLibraryPeaks == 4

\* the greatest intensity of a peak
MaxPeakIntensity == 3

LoaderInit ==
    /\ FdrOff /\ CliOff /\ IpOff /\ IdOff /\ ParOff
    /\ llPc = "lists"
    /\ \E n \in 0..MaxLibraryPeaks :
         /\ llMz = [i \in 1..n |-> 100 + i]
         /\ llIntensities \in [1..n -> 1..MaxPeakIntensity]
    /\ llId \in {0, 1}
    /\ llMaxPeakNum \in 0..(MaxLibraryPeaks + 1)
    /\ llPeaks = <<>>
    /\ llReturned = <<>>

CreatePeaks ==
    /\ llPc = "lists"
    /\ llPeaks' = create_peaks_from_mz_intensity_lists_and_csodiaq_key_id(llMz, llIntensities, llId)
    /\ llPc' = "peaks"
    /\ UNCHANGED <<llMz, llIntensities, llId, llMaxPeakNum, llReturned>>
    /\ UNCHANGED otherThanLoader

\* the call sorts the list it is given in place and returns a slice of it
RemoveLowIntensityPeaks ==
    /\ llPc = "peaks"
    /\ llPeaks' = sort_by_intensity_reversed(llPeaks)
    /\ llReturned' = remove_low_intensity_peaks_below_max_peak_num(llPeaks, llMaxPeakNum)
    /\ llPc' = "reduced"
    /\ UNCHANGED <<llMz, llIntensities, llId, llMaxPeakNum>>
    /\ UNCHANGED otherThanLoader

LoaderNext ==
    \/ CreatePeaks
    \/ RemoveLowIntensityPeaks

SpecLoader == LoaderInit /\ [][LoaderNext]_vars

-----------------------------------------------------------------------------
(* Properties of the Identifier *)

\* |queryMz - libraryMz| / libraryMz * 10^6 <= tolerance
PairWithinTolerance(libMz, queryMz, ppmTolerance) ==
    Abs(queryMz - libMz) * 1000 <= ppmTolerance * (libMz \div 1000)

\* the row of a match table is the pair of this library and this query peak
RowIsPair(row, libPeak, queryPeak) ==
    /\ row.libraryIdx = libPeak[3] /\ row.libraryMz = libPeak[1]
    /\ row.libraryIntensity = libPeak[2]
    /\ row.queryIdx = queryPeak[3] /\ row.queryMz = queryPeak[1]
    /\ row.queryIntensity = queryPeak[2]

PairInTable(table, libPeak, queryPeak) ==
    \E r \in DOMAIN table : RowIsPair(table[r], libPeak, queryPeak)

\* the pairs of the pool that are within tolerance and belong to the same
\* (library, query) group as this pair
PairsOfGroupWithinTolerance(pool, libPeak, queryPeak) ==
    {<<i, j>> \in (DOMAIN pool.libPeaks) \X (DOMAIN pool.queryPeaks) :
       /\ pool.libPeaks[i][3] = libPeak[3]
       /\ pool.queryPeaks[j][3] = queryPeak[3]
       /\ PairWithinTolerance(pool.libPeaks[i][1], pool.queryPeaks[j][1],
                              args.fragmentMassTolerance)}

\* the Match table holds the first matching pass
FirstPassMatched == pc \in {"score", "correct"}

(* C1, as stated: a pooled library peak and a pooled query peak are a row of
   the Match table of the first matching pass if and only if their relative
   m/z difference is at most the fragment mass tolerance. *)
C1_MatchTableIffWithinTolerance ==
    FirstPassMatched =>
      \A w \in DOMAIN pooled :
        \A i \in DOMAIN pooled[w].libPeaks, j \in DOMAIN pooled[w].queryPeaks :
          PairInTable(matchDf, pooled[w].libPeaks[i], pooled[w].queryPeaks[j])
            <=> PairWithinTolerance(pooled[w].libPeaks[i][1], pooled[w].queryPeaks[j][1],
                                    args.fragmentMassTolerance)

(* C1, amended: in every pool, a pooled library peak and a pooled query peak
   are a row of the table the pooled matcher returns if and only if their
   relative m/z difference is at most the fragment mass tolerance, and every
   row of that table is such a pair; they are a row of the Match table of the
   first matching pass if and only if, in addition, their (library, query)
   group has at least 3 pairs within tolerance.  No pair out of tolerance is
   in either table. *)
C1_MatchIffWithinTolerance ==
    \A w \in DOMAIN pooled :
      LET pool == pooled[w]
      IN /\ \A i \in DOMAIN pool.libPeaks, j \in DOMAIN pool.queryPeaks :
              /\ PairInTable(pool.matches, pool.libPeaks[i], pool.queryPeaks[j])
                   <=> PairWithinTolerance(pool.libPeaks[i][1], pool.queryPeaks[j][1],
                                           args.fragmentMassTolerance)
              /\ FirstPassMatched =>
                   (PairInTable(matchDf, pool.libPeaks[i], pool.queryPeaks[j])
                      <=> /\ PairWithinTolerance(pool.libPeaks[i][1], pool.queryPeaks[j][1],
                                                 args.fragmentMassTolerance)
                          /\ Cardinality(PairsOfGroupWithinTolerance(
                                 pool, pool.libPeaks[i], pool.queryPeaks[j])) >= 3)
         /\ \A r \in DOMAIN pool.matches :
              \E i \in DOMAIN pool.libPeaks, j \in DOMAIN pool.queryPeaks :
                RowIsPair(pool.matches[r], pool.libPeaks[i], pool.queryPeaks[j])

\* after the first matching pass: a pool where one library peak is matched to
\* two query peaks, one query peak to two library peaks, one pair sits exactly
\* at the tolerance and one pair is out of tolerance; and a pair within
\* tolerance that is not in the Match table, which holds other rows
C1_Witness ==
    /\ FirstPassMatched
    /\ matchDf # <<>>
    /\ \E w \in DOMAIN pooled :
         \E i \in DOMAIN pooled[w].libPeaks, j \in DOMAIN pooled[w].queryPeaks :
           /\ PairWithinTolerance(pooled[w].libPeaks[i][1], pooled[w].queryPeaks[j][1],
                                  args.fragmentMassTolerance)
           /\ ~PairInTable(matchDf, pooled[w].libPeaks[i], pooled[w].queryPeaks[j])
    /\ \E w \in DOMAIN pooled :
         LET pool == pooled[w]
             rows == DOMAIN pool.matches
         IN /\ \E r1, r2 \in rows :
                 /\ pool.matches[r1].libraryIdx = pool.matches[r2].libraryIdx
                 /\ pool.matches[r1].libraryMz = pool.matches[r2].libraryMz
                 /\ pool.matches[r1].queryMz # pool.matches[r2].queryMz
            /\ \E r1, r2 \in rows :
                 /\ pool.matches[r1].queryIdx = pool.matches[r2].queryIdx
                 /\ pool.matches[r1].queryMz = pool.matches[r2].queryMz
                 /\ pool.matches[r1].libraryIdx # pool.matches[r2].libraryIdx
            /\ \E r \in rows :
                 Abs(pool.matches[r].ppmDifference) = args.fragmentMassTolerance
            /\ \E i \in DOMAIN pool.libPeaks, j \in DOMAIN pool.queryPeaks :
                 ~PairInTable(pool.matches, pool.libPeaks[i], pool.queryPeaks[j])

\* the rows the matcher found for a group, over all pools, that lie in the
\* corrected ppm window once there is one
RowsFoundInWindow(group) ==
    {<<w, r>> \in UNION {{<<v, x>> : x \in DOMAIN pooled[v].matches} : v \in DOMAIN pooled} :
       /\ GroupOf(pooled[w].matches[r]) = group
       /\ \/ ppmWindow = <<>>
          \/ /\ pooled[w].matches[r].ppmDifference >= ppmWindow[1] - ppmWindow[2]
             /\ pooled[w].matches[r].ppmDifference <= ppmWindow[1] + ppmWindow[2]}

GroupsFound == UNION {Groups(pooled[w].matches) : w \in DOMAIN pooled}

(* C2: every group of the Score table, and every group of the Match table,
   has at least 3 peak rows in the Match table, and at least 3 of the rows the
   matcher found for it lie in the corrected ppm window once the correction
   has been applied. *)
C2_MinimumMatchFilter ==
    /\ \A n \in DOMAIN scoreDf :
         /\ GroupCount(matchDf, GroupOf(scoreDf[n])) >= 3
         /\ Cardinality(RowsFoundInWindow(GroupOf(scoreDf[n]))) >= 3
    /\ \A m \in DOMAIN matchDf :
         /\ GroupCount(matchDf, GroupOf(matchDf[m])) >= 3
         /\ Cardinality(RowsFoundInWindow(GroupOf(matchDf[m]))) >= 3

\* the correction has been applied, a group that had 3 rows in the first pass
\* has fewer in the corrected window and is gone from both tables, while
\* another group is still in the Score table; and a group the matcher found
\* with fewer than 3 rows never got into the tables
C2_Witness ==
    /\ pc = "write"
    /\ ppmWindow # <<>>
    /\ scoreDf # <<>>
    /\ \E g \in GroupsFound :
         /\ Cardinality({<<w, r>> \in UNION {{<<v, x>> : x \in DOMAIN pooled[v].matches} :
                                                v \in DOMAIN pooled} :
                           GroupOf(pooled[w].matches[r]) = g}) >= 3
         /\ Cardinality(RowsFoundInWindow(g)) \in 1..2
         /\ g \notin Groups(matchDf)
         /\ g \notin Groups(scoreDf)

(* C9: once the Identifier is built, the library dictionary and the decoy set
   stay what the constructor made them, through every step for every query
   file. *)
C9_LibraryNeverMutated ==
    pc # "off" => /\ libraryDict = LoadedLibrary
                  /\ decoySet = DecoyKeys(LoadedLibrary)

\* the output of the file last loaded has been written
FileWritten == pc \in {"load", "done"} /\ fileIdx > 1

(* C11: when the FDR filter accepts no row (cutoff index 0, an empty Score
   table), the file is still written: its output table has no row and all
   the output columns, under the file's output path; and the run only ever
   raises in the matching step, before any Match or Score table exists. *)
C11_EmptyFdrResultHandled ==
    /\ (FileWritten /\ scoreDf = <<>>) =>
         /\ outputDf.rows = <<>>
         /\ outputDf.columns = <<"fileName">> \o OutputColumns
         /\ Len(outputDf.columns) = 18
         /\ create_outfile_path(queryContext.filePath, args.correction) \in outFiles
    /\ pc = "error" => (pooled = <<>> /\ matchDf = <<>> /\ scoreDf = <<>>)

\* a file with peaks but no group of 3 matches has been written with the
\* correction enabled: the first pass and the corrected pass both ended with
\* an empty Score table
C11_Witness ==
    /\ FileWritten
    /\ args.correction # -1
    /\ ppmWindow # <<>>
    /\ \E w \in DOMAIN pooled : pooled[w].matches # <<>>
    /\ scoreDf = <<>>
    /\ outputDf.rows = <<>>

\* the value of a row of the written table in the column of this name
OutputCell(row, column) ==
    row[CHOOSE i \in DOMAIN outputDf.columns : outputDf.columns[i] = column]

\* the key of the library dictionary a libraryIdx stands for
LibraryKeyOfIdx(libraryIdx) == SortKeys(DOMAIN LoadedLibrary)[libraryIdx + 1]

\* the output row is the identification of this (library, query) pair
OutputRowIsFor(row, group) ==
    /\ OutputCell(row, "scan") = group[2]
    /\ OutputCell(row, "MzLIB") = LibraryKeyOfIdx(group[1])[1]
    /\ OutputCell(row, "peptide") = LibraryKeyOfIdx(group[1])[2]

(* C12: the written table has exactly one row for every (library, query)
   pair of the Score table it was written from and no other row: a pair of
   the Match table that is not in the Score table has no row, and no pair of
   the Score table is missing or written twice. *)
C12_OneRowPerAcceptedPair ==
    FileWritten =>
      /\ Len(outputDf.rows) = Len(scoreDf)
      /\ \A n \in DOMAIN scoreDf :
           Cardinality({r \in DOMAIN outputDf.rows :
                          OutputRowIsFor(outputDf.rows[r], GroupOf(scoreDf[n]))}) = 1
      /\ \A r \in DOMAIN outputDf.rows :
           \E n \in DOMAIN scoreDf : OutputRowIsFor(outputDf.rows[r], GroupOf(scoreDf[n]))
      /\ \A g \in Groups(matchDf) \ Groups(scoreDf) :
           \A r \in DOMAIN outputDf.rows : ~OutputRowIsFor(outputDf.rows[r], g)

\* written without correction from a Match table holding two groups more
\* than the Score table, which holds one
C12_Witness ==
    /\ FileWritten
    /\ args.correction = -1
    /\ Len(scoreDf) = 1
    /\ Cardinality(Groups(matchDf) \ Groups(scoreDf)) = 2
    /\ Len(outputDf.rows) = 1

\* the (Match table, Score table) pairs a file's content gives when its steps
\* run alone: one pair without correction, one per computed ppm window with it
SequentialTables(context) ==
    LET firstMatches == FirstPassMatches(LoadedLibrary, context, parArgs.fragmentMassTolerance)
        firstScores == score_spectra_matches(firstMatches, DecoyKeys(LoadedLibrary))
        kept == eliminate_matches_below_fdr_cutoff(firstMatches, Groups(firstScores))
    IN IF parArgs.correction = -1
       THEN {<<firstMatches, firstScores>>}
       ELSE {LET corrected == apply_correction_to_match_dataframe(firstMatches, firstScores,
                                                                  window[1], window[2])
             IN <<corrected, score_spectra_matches(corrected, DecoyKeys(LoadedLibrary))>> :
               window \in PpmOffsetTolerances(PpmValues(kept))}

\* the tables a file's output can be when the files are processed one after
\* the other
SequentialOutputs(context) ==
    {format_output_as_pandas_dataframe(context.filePath,
         OutputLines(LoadedLibrary, context, tables[1], tables[2])) :
       tables \in SequentialTables(context)}

AllWorkersEnded == \A w \in Workers : parPc[w] \in {"done", "error"}

(* C13: whatever the interleaving of the steps of the two workers, no worker
   raises, and once both have ended the output file of each query file holds
   a table that the sequential processing of that file gives. *)
C13_ParallelEqualsSequential ==
    /\ \A w \in Workers : parPc[w] # "error"
    /\ AllWorkersEnded =>
         \A w \in Workers :
           \E table \in SequentialOutputs(parFiles[w]) :
             <<create_outfile_path(w, parArgs.correction), table>> \in parOutFiles

\* the Match table of the first pass over the file being processed
FirstPassOfCurrentFile ==
    FirstPassMatches(LoadedLibrary, queryContext, args.fragmentMassTolerance)

\* the correction has been applied to the tables of the current file
Corrected == pc \in {"write", "load", "done"} /\ ppmWindow # <<>>

\* the position of a row in a table that holds it once
PositionIn(table, row) == CHOOSE i \in DOMAIN table : table[i] = row

(* C14: once the correction has been applied with (offset, tolerance), every
   row of the Match table has its ppmDifference in
   [offset - tolerance, offset + tolerance], and the Match table is the
   first-pass Match table with rows removed: each of its rows is a row of the
   first pass, unaltered, none twice, in the same order. *)
C14_CorrectedWithinWindowAndSubset ==
    Corrected =>
      LET firstPass == FirstPassOfCurrentFile
      IN /\ \A m \in DOMAIN matchDf :
              /\ matchDf[m].ppmDifference >= ppmWindow[1] - ppmWindow[2]
              /\ matchDf[m].ppmDifference <= ppmWindow[1] + ppmWindow[2]
              /\ \E f \in DOMAIN firstPass : firstPass[f] = matchDf[m]
         /\ \A m, n \in DOMAIN matchDf :
              m < n => PositionIn(firstPass, matchDf[m]) < PositionIn(firstPass, matchDf[n])

\* the correction has removed a row outside the window from a group that is
\* still in the Match table
C14_Witness ==
    /\ pc = "write"
    /\ ppmWindow # <<>>
    /\ matchDf # <<>>
    /\ \E f \in DOMAIN FirstPassOfCurrentFile :
         /\ FirstPassOfCurrentFile[f].ppmDifference > ppmWindow[1] + ppmWindow[2]
         /\ GroupOf(FirstPassOfCurrentFile[f]) \in Groups(matchDf)
         /\ \A m \in DOMAIN matchDf : matchDf[m] # FirstPassOfCurrentFile[f]

(* C15: with correction == -1 the correction step returns the Match table and
   the Score table it was given and computes no ppm window; and an output
   path carries the '_corrected' suffix exactly when correction # -1. *)
C15_CorrectionDisabledIsNoOp ==
    /\ [][(pc = "correct" /\ args.correction = -1) =>
            /\ pc' = "write"
            /\ matchDf' = matchDf
            /\ scoreDf' = scoreDf
            /\ ppmWindow' = <<>>]_vars
    /\ [](\A f \in outFiles : f.corrected <=> (args.correction # -1))

\* a file with identifications written without correction: its tables are
\* those of the first pass and its path has no suffix
C15_Witness ==
    /\ FileWritten
    /\ args.correction = -1
    /\ scoreDf # <<>>
    /\ ppmWindow = <<>>
    /\ matchDf = FirstPassOfCurrentFile
    /\ [file |-> queryContext.filePath, corrected |-> FALSE] \in outFiles

\* the rows of a Match table that belong to the groups of a Score table
RowsOfAcceptedGroups(matches, scores) ==
    {matches[m] : m \in {x \in DOMAIN matches : GroupOf(matches[x]) \in Groups(scores)}}

\* all the rows the matcher found for a group, over all pools
RowsFound(group) ==
    {<<w, r>> \in UNION {{<<v, x>> : x \in DOMAIN pooled[v].matches} : v \in DOMAIN pooled} :
       GroupOf(pooled[w].matches[r]) = group}

(* C16: a correction step with correction # -1 computes the ppm window from
   the rows of the groups of the Score table it is given (the groups the
   first-pass FDR filter accepted), leaves in the Match table only rows of
   those groups, and returns a Score table whose (library, query) pairs were
   all in the Score table it was given. *)
C16_SecondPassWithinFirstPass ==
    [][(pc = "correct" /\ args.correction # -1) =>
         /\ ppmWindow' \in PpmOffsetTolerances(
                {row.ppmDifference : row \in RowsOfAcceptedGroups(matchDf, scoreDf)})
         /\ \A m \in DOMAIN matchDf' : matchDf'[m] \in RowsOfAcceptedGroups(matchDf, scoreDf)
         /\ Groups(scoreDf') \subseteq Groups(matchDf')
         /\ Groups(scoreDf') \subseteq Groups(scoreDf)]_vars

\* after a correction: a group the matcher found with at least 3 rows, all
\* of them in the corrected window, is in neither table (the first-pass FDR
\* filter rejected it), while another group is in the Score table
C16_Witness ==
    /\ pc = "write"
    /\ ppmWindow # <<>>
    /\ scoreDf # <<>>
    /\ \E g \in GroupsFound :
         /\ Cardinality(RowsFound(g)) >= 3
         /\ RowsFoundInWindow(g) = RowsFound(g)
         /\ g \notin Groups(scoreDf)
         /\ g \notin Groups(matchDf)

\* the rows of the Match table that belong to the pair of an output row
MatchRowsOfOutputRow(row) ==
    {m \in DOMAIN matchDf :
       /\ matchDf[m].queryIdx = OutputCell(row, "scan")
       /\ LibraryKeyOfIdx(matchDf[m].libraryIdx) =
            <<OutputCell(row, "MzLIB"), OutputCell(row, "peptide")>>}

(* C17: in every written row, shared is the number of Match rows of the
   row's (library, query) group, ionCount is the sum of queryIntensity over
   those whose queryMz is strictly above the query precursor m/z, and
   exclude_num is the number of those whose queryMz is at or below it; so
   shared = exclude_num + the number of rows counted in ionCount. *)
C17_MatchMetadata ==
    FileWritten =>
      \A r \in DOMAIN outputDf.rows :
        LET row == outputDf.rows[r]
            rows == MatchRowsOfOutputRow(row)
            precursorMz == queryContext.scans[OutputCell(row, "scan")].precursorMz
            counted == {m \in rows : matchDf[m].queryMz > precursorMz}
            excluded == {m \in rows : matchDf[m].queryMz <= precursorMz}
        IN /\ OutputCell(row, "MzEXP") = precursorMz
           /\ OutputCell(row, "shared") = Cardinality(rows)
           /\ OutputCell(row, "ionCount") = SumOver([m \in counted |-> matchDf[m].queryIntensity],
                                                    counted)
           /\ OutputCell(row, "exclude_num") = Cardinality(excluded)
           /\ OutputCell(row, "shared") = OutputCell(row, "exclude_num") + Cardinality(counted)

\* a written row whose group has a Match row below the precursor m/z, one
\* exactly at it and one above it
C17_Witness ==
    /\ FileWritten
    /\ \E r \in DOMAIN outputDf.rows :
         LET row == outputDf.rows[r]
             rows == MatchRowsOfOutputRow(row)
         IN /\ \E m \in rows : matchDf[m].queryMz = OutputCell(row, "MzEXP")
            /\ \E m \in rows : matchDf[m].queryMz < OutputCell(row, "MzEXP")
            /\ \E m \in rows : matchDf[m].queryMz > OutputCell(row, "MzEXP")
            /\ OutputCell(row, "exclude_num") >= 2
            /\ OutputCell(row, "ionCount") > 0

-----------------------------------------------------------------------------
(* Properties of the library loader *)

\* the peaks the loader was given for the spectrum, in input order
InputPeaks == [i \in 1..Len(llMz) |-> <<llMz[i], llIntensities[i], llId>>]

\* the input positions of a returned peak
InputPositions(peak) == {i \in DOMAIN InputPeaks : InputPeaks[i] = peak}

InputPosition(peak) == CHOOSE i \in InputPositions(peak) : TRUE

(* C18: remove_low_intensity_peaks_below_max_peak_num returns
   min(len(peaks), maxPeakNum) peaks; each is an input peak with its m/z,
   intensity and id, none is returned twice; they are in descending order of
   intensity, peaks of equal intensity in their input order; no dropped peak
   is more intense than a returned one; and nothing is dropped when
   len(peaks) <= maxPeakNum. *)
C18_HighestPeaksKept ==
    llPc = "reduced" =>
      /\ Len(llReturned) = Min(Len(InputPeaks), llMaxPeakNum)
      /\ \A k \in DOMAIN llReturned : Cardinality(InputPositions(llReturned[k])) = 1
      /\ \A k, l \in DOMAIN llReturned :
           k < l => /\ llReturned[k] # llReturned[l]
                    /\ llReturned[k][2] >= llReturned[l][2]
                    /\ llReturned[k][2] = llReturned[l][2] =>
                         InputPosition(llReturned[k]) < InputPosition(llReturned[l])
      /\ \A i \in DOMAIN InputPeaks :
           (\A k \in DOMAIN llReturned : llReturned[k] # InputPeaks[i]) =>
             \A k \in DOMAIN llReturned : llReturned[k][2] >= InputPeaks[i][2]
      /\ Len(InputPeaks) <= llMaxPeakNum =>
           \A i \in DOMAIN InputPeaks : \E k \in DOMAIN llReturned : llReturned[k] = InputPeaks[i]

\* four peaks reduced to three: two returned peaks of equal intensity that
\* were not neighbours in the input, a more intense peak that came after
\* them in the input, and a dropped peak
C18_Witness ==
    /\ llPc = "reduced"
    /\ Len(InputPeaks) = 4
    /\ Len(llReturned) = 3
    /\ llReturned[1] = InputPeaks[4]
    /\ llReturned[2] = InputPeaks[1]
    /\ llReturned[3] = InputPeaks[3]
    /\ llReturned[2][2] = llReturned[3][2]
    /\ InputPeaks[2][2] < llReturned[3][2]

====
